---- MODULE Spec2Model ----
(***************************************************************************)
(* A model of OpenXrProgram (src/src/hello_xr/openxr_program.cpp): the     *)
(* handles it owns, the start-up operations that create them, and the      *)
(* event pump that advances the session state.                             *)
(*                                                                         *)
(* The OpenXR runtime and the graphics plugin are the environment: every   *)
(* result they return is a nondeterministic choice from a small set.  An   *)
(* exception that leaves a public operation is recorded in `thrown`; the   *)
(* object keeps whatever state it had when the exception was raised.       *)
(***************************************************************************)
EXTENDS Integers, Sequences, FiniteSets, TLC

----------------------------------------------------------------------------
(* Bounds of the model.                                                    *)

\* the number of events the runtime queues in one run
MaxEvents == 2

----------------------------------------------------------------------------
(* Handles and enumerations of the OpenXR API.                             *)

XR_NULL_HANDLE == 0
\* the handle the runtime returns for the session this program creates
SessionHandle == 1
\* a session handle of some other session, never owned by this program
ForeignSession == 2

SessionStates ==
    {"UNKNOWN", "IDLE", "READY", "SYNCHRONIZED", "VISIBLE", "FOCUSED",
     "STOPPING", "LOSS_PENDING", "EXITING"}

EventTypes ==
    {"EVENTS_LOST", "INSTANCE_LOSS_PENDING", "SESSION_STATE_CHANGED",
     "INTERACTION_PROFILE_CHANGED", "REFERENCE_SPACE_CHANGE_PENDING",
     "VISIBILITY_MASK_CHANGED"}

\* an event of a type that carries no session state
PlainEvent(t) == [type |-> t, session |-> XR_NULL_HANDLE, state |-> "UNKNOWN"]

StateChangedEvent(sess, st) ==
    [type |-> "SESSION_STATE_CHANGED", session |-> sess, state |-> st]

\* what the runtime can put in its queue
Events ==
    {PlainEvent(t) : t \in EventTypes \ {"SESSION_STATE_CHANGED"}}
        \cup {StateChangedEvent(s, st) :
                s \in {XR_NULL_HANDLE, SessionHandle, ForeignSession},
                st \in SessionStates}

----------------------------------------------------------------------------
(* State.                                                                  *)

VARIABLES
    \* OpenXrProgram's members
    m_options,              \* the configuration strings (const after construction)
    m_instance, m_session, m_appSpace, m_systemId,
    m_formFactor, m_viewConfigType, m_environmentBlendMode,
    m_configViews, m_swapchains, m_swapchainImages, m_views,
    m_colorSwapchainFormat,
    m_visualizedSpaces,
    m_sessionState, m_sessionRunning,
    m_input,
    \* the caller's two flags PollEvents writes through its pointer arguments
    exitRenderLoop, requestRestart,
    \* where control is: "idle" between public calls, "PollEvents" inside the drain loop
    pc,
    \* the exception that ended the last public operation, "none" if it returned
    thrown,
    \* the runtime and plugin calls issued by the last step of the program, in order
    calls,
    \* the runtime's queue of pending events (m_eventDataBuffer, the buffer an
    \* event is copied to, is written by every read before anything reads it
    \* and so carries no state from one pass of the loop to the next)
    eventQueue,
    \* how many events the runtime has queued so far
    eventsQueued,
    \* the events the current call of PollEvents (the last one, between calls)
    \* has read, in the order it read them
    handled,
    \* the public operation called last and what the runtime and the plugin
    \* did to that execution: the results they reported and the call they failed
    reported,
    \* how often the graphics plugin's InitializeDevice has been called
    initializeDeviceCalls,
    \* the runtime's side of xrAttachSessionActionSets: whether the action set
    \* is attached to the session
    actionSetAttached,
    \* whether the user holds the controllers in this run; when not, the
    \* runtime reports every action inactive
    handsInUse,
    \* the views the runtime enumerates for the system, the same in every call
    systemViews,
    \* the number of images the runtime gives the swapchain of each view, the
    \* same in every call
    systemImages

Reported(op, in) == [op |-> op, in |-> in]

handleVars == <<m_instance, m_session, m_appSpace, m_systemId, m_visualizedSpaces, m_input>>
configVars == <<m_options, m_formFactor, m_viewConfigType, m_environmentBlendMode>>
swapchainVars == <<m_configViews, m_swapchains, m_swapchainImages, m_views, m_colorSwapchainFormat>>
sessionVars == <<m_sessionState, m_sessionRunning>>
signalVars == <<exitRenderLoop, requestRestart>>

vars == <<handleVars, configVars, swapchainVars, sessionVars, signalVars,
          pc, thrown, calls, eventQueue, eventsQueued, handled, reported, initializeDeviceCalls,
          actionSetAttached, handsInUse, systemViews, systemImages>>

\* a runtime call, as it appears in `calls`
Call(fn, arg) == [fn |-> fn, arg |-> arg]

\* the calls of `cs` to function `fn`
CallsTo(cs, fn) == SelectSeq(cs, LAMBDA c : c.fn = fn)

----------------------------------------------------------------------------
(* The event pump: PollEvents, TryReadNextEvent and                        *)
(* HandleSessionStateChangedEvent.                                         *)

\* What one pass of the drain loop has done so far to the members and flags
\* it can write; the starting value is the state before the pass.
StepStart ==
    [sessionState |-> m_sessionState,
     running      |-> m_sessionRunning,
     exit         |-> exitRenderLoop,
     restart      |-> requestRestart,
     calls        |-> <<Call("xrPollEvent", "")>>,
     thrown       |-> "none"]

\* a READY branch that begins the session and forgets to mark it running
SessionStateReady_NotMarkedRunning(fx, beginOk) ==
    IF m_session = XR_NULL_HANDLE
    THEN [fx EXCEPT !.thrown = "logic_error"]
    ELSE [fx EXCEPT !.calls = Append(@, Call("xrBeginSession", m_viewConfigType)),
                    !.thrown = IF beginOk THEN "none" ELSE "xr_error"]

\* case XR_SESSION_STATE_READY
SessionStateReady(fx, beginOk) ==
    IF m_session = XR_NULL_HANDLE
    THEN [fx EXCEPT !.thrown = "logic_error"]
    ELSE LET called == [fx EXCEPT !.calls = Append(@, Call("xrBeginSession", m_viewConfigType))]
         IN  IF beginOk
             THEN [called EXCEPT !.running = TRUE]
             ELSE [called EXCEPT !.thrown = "xr_error"]

\* a STOPPING branch that ends the session and leaves it marked running
SessionStateStopping_KeepsRunning(fx, endOk) ==
    IF m_session = XR_NULL_HANDLE
    THEN [fx EXCEPT !.thrown = "logic_error"]
    ELSE [fx EXCEPT !.calls = Append(@, Call("xrEndSession", "")),
                    !.thrown = IF endOk THEN "none" ELSE "xr_error"]

\* case XR_SESSION_STATE_STOPPING
SessionStateStopping(fx, endOk) ==
    IF m_session = XR_NULL_HANDLE
    THEN [fx EXCEPT !.thrown = "logic_error"]
    ELSE [fx EXCEPT !.running = FALSE,
                    !.calls = Append(@, Call("xrEndSession", "")),
                    !.thrown = IF endOk THEN "none" ELSE "xr_error"]

\* an EXITING branch that leaves requestRestart as it finds it
SessionStateExiting_KeepsRestart(fx) == [fx EXCEPT !.exit = TRUE]

\* case XR_SESSION_STATE_EXITING
SessionStateExiting(fx) == [fx EXCEPT !.exit = TRUE, !.restart = FALSE]

\* a LOSS_PENDING branch that asks for the exit but not for the restart
SessionStateLossPending_NoRestart(fx) == [fx EXCEPT !.exit = TRUE]

\* a LOSS_PENDING branch that asks for the restart but not for the exit
SessionStateLossPending_RestartOnly(fx) == [fx EXCEPT !.restart = TRUE]

\* case XR_SESSION_STATE_LOSS_PENDING
SessionStateLossPending(fx) == [fx EXCEPT !.exit = TRUE, !.restart = TRUE]

\* a default branch that treats every other state as the end of the session
SessionStateOther_StopsRunning(fx) == [fx EXCEPT !.running = FALSE]

\* default: of the switch on m_sessionState
SessionStateOther(fx) == fx

\* the guard against events of a session this program does not own
IsUnknownSession(ev) ==
    (ev.session # XR_NULL_HANDLE) /\ (ev.session # m_session)

\* the assignment m_sessionState = stateChangedEvent.state
StoreSessionState(fx, ev) == [fx EXCEPT !.sessionState = ev.state]

HandleSessionStateChangedEvent(ev, fx, rtOk) ==
    LET stored == StoreSessionState(fx, ev)
    IN  IF IsUnknownSession(ev)
        THEN stored
        ELSE CASE stored.sessionState = "READY"        -> SessionStateReady(stored, rtOk)
               [] stored.sessionState = "STOPPING"     -> SessionStateStopping(stored, rtOk)
               [] stored.sessionState = "EXITING"      -> SessionStateExiting(stored)
               [] stored.sessionState = "LOSS_PENDING" -> SessionStateLossPending(stored)
               [] OTHER                                -> SessionStateOther(stored)

\* case XR_TYPE_EVENT_DATA_INSTANCE_LOSS_PENDING
InstanceLossPending(fx) == [fx EXCEPT !.exit = TRUE, !.restart = TRUE]

\* a drain loop that no event makes return early
ReturnsAfter_Never(t) == FALSE

\* a drain loop that is also left after a session state change
ReturnsAfter_StateChange(t) == t \in {"INSTANCE_LOSS_PENDING", "SESSION_STATE_CHANGED"}

\* whether the drain loop is left after an event of type t was dispatched
ReturnsAfter(t) == t = "INSTANCE_LOSS_PENDING"

\* case XR_TYPE_EVENT_DATA_INTERACTION_PROFILE_CHANGED: LogActionSourceName for
\* the four actions; it only reads, and throws when the runtime refuses the query
InteractionProfileChanged(fx, rtOk) ==
    IF rtOk /\ m_session # XR_NULL_HANDLE
    THEN [fx EXCEPT !.calls = @ \o <<Call("xrEnumerateBoundSourcesForAction", "Grab"),
                                     Call("xrEnumerateBoundSourcesForAction", "Quit"),
                                     Call("xrEnumerateBoundSourcesForAction", "Pose"),
                                     Call("xrEnumerateBoundSourcesForAction", "Vibrate")>>]
    ELSE [fx EXCEPT !.calls = Append(@, Call("xrEnumerateBoundSourcesForAction", "Grab")),
                    !.thrown = "xr_error"]

\* an event that is logged and also taken for the end of the session
IgnoredEvent_StopsRunning(fx) == [fx EXCEPT !.running = FALSE]

\* case XR_TYPE_EVENT_DATA_REFERENCE_SPACE_CHANGE_PENDING and default: log only
IgnoredEvent(fx) == fx

\* the switch on event->type in the drain loop
DispatchEvent(ev, fx, rtOk) ==
    CASE ev.type = "INSTANCE_LOSS_PENDING"       -> InstanceLossPending(fx)
      [] ev.type = "SESSION_STATE_CHANGED"       -> HandleSessionStateChangedEvent(ev, fx, rtOk)
      [] ev.type = "INTERACTION_PROFILE_CHANGED" -> InteractionProfileChanged(fx, rtOk)
      [] OTHER                                   -> IgnoredEvent(fx)

\* the result of xrPollEvent: an invalid instance handle is refused, and the
\* runtime may fail the call (pollOk = FALSE) at any time
PollResult(pollOk) ==
    IF m_instance = XR_NULL_HANDLE \/ ~pollOk THEN "error"
    ELSE IF eventQueue = <<>> THEN "EVENT_UNAVAILABLE"
    ELSE "SUCCESS"

\* a PollEvents that is entered with the flags as the last call left them
PollEventsBegin_KeepsSignals ==
    /\ pc = "idle"
    /\ pc' = "PollEvents"
    /\ thrown' = "none"
    /\ calls' = <<>>
    /\ handled' = <<>>
    /\ reported' = Reported("PollEvents", <<>>)
    /\ UNCHANGED <<handleVars, configVars, swapchainVars, sessionVars, signalVars,
                   eventQueue, eventsQueued, initializeDeviceCalls, actionSetAttached, handsInUse, systemViews, systemImages>>

\* PollEvents is entered: both flags are cleared
PollEventsBegin ==
    /\ pc = "idle"
    /\ pc' = "PollEvents"
    /\ exitRenderLoop' = FALSE
    /\ requestRestart' = FALSE
    /\ thrown' = "none"
    /\ calls' = <<>>
    /\ handled' = <<>>
    /\ reported' = Reported("PollEvents", <<>>)
    /\ UNCHANGED <<handleVars, configVars, swapchainVars, sessionVars,
                   eventQueue, eventsQueued, initializeDeviceCalls, actionSetAttached, handsInUse, systemViews, systemImages>>

\* TryReadNextEvent throws: xrPollEvent returned an error
PollEventsReadFails ==
    /\ pc = "PollEvents"
    /\ \E pollOk \in BOOLEAN : PollResult(pollOk) = "error"
    /\ calls' = <<Call("xrPollEvent", "")>>
    /\ thrown' = "xr_error"
    /\ pc' = "idle"
    /\ UNCHANGED <<handleVars, configVars, swapchainVars, sessionVars, signalVars,
                   eventQueue, eventsQueued, handled, reported, initializeDeviceCalls,
                   actionSetAttached, handsInUse, systemViews, systemImages>>

\* TryReadNextEvent returns nullptr: the loop ends and PollEvents returns
PollEventsDrained ==
    /\ pc = "PollEvents"
    /\ PollResult(TRUE) = "EVENT_UNAVAILABLE"
    /\ calls' = <<Call("xrPollEvent", "")>>
    /\ thrown' = "none"
    /\ pc' = "idle"
    /\ UNCHANGED <<handleVars, configVars, swapchainVars, sessionVars, signalVars,
                   eventQueue, eventsQueued, handled, reported, initializeDeviceCalls,
                   actionSetAttached, handsInUse, systemViews, systemImages>>

\* one pass of the loop: TryReadNextEvent returns an event, the switch handles it
PollEventsDispatch ==
    /\ pc = "PollEvents"
    /\ PollResult(TRUE) = "SUCCESS"
    /\ \E rtOk \in BOOLEAN :
         \E ev \in {Head(eventQueue)} : \E fx \in {DispatchEvent(ev, StepStart, rtOk)} :
             /\ eventQueue' = Tail(eventQueue)
             /\ handled' = Append(handled, ev)
             /\ m_sessionState' = fx.sessionState
             /\ m_sessionRunning' = fx.running
             /\ exitRenderLoop' = fx.exit
             /\ requestRestart' = fx.restart
             /\ calls' = fx.calls
             /\ thrown' = fx.thrown
             /\ pc' = IF fx.thrown # "none" \/ ReturnsAfter(ev.type)
                      THEN "idle" ELSE "PollEvents"
    /\ UNCHANGED <<handleVars, configVars, swapchainVars, eventsQueued, reported,
                   initializeDeviceCalls,
                   actionSetAttached, handsInUse, systemViews, systemImages>>

\* the runtime queues an event; it may do so at any time
RuntimeQueueEvent ==
    /\ eventsQueued < MaxEvents
    /\ eventsQueued' = eventsQueued + 1
    /\ \E ev \in Events : eventQueue' = Append(eventQueue, ev)
    /\ UNCHANGED <<handleVars, configVars, swapchainVars, sessionVars, signalVars,
                   pc, thrown, calls, handled, reported, initializeDeviceCalls,
                   actionSetAttached, handsInUse, systemViews, systemImages>>

----------------------------------------------------------------------------
(* Configuration strings.  A string is a sequence of characters, so that   *)
(* the case-insensitive comparison is computed and not assumed.            *)

UpperCase == <<"A", "B", "C", "D", "E", "F", "G", "H", "I", "J", "K", "L", "M", "N", "O", "P", "Q", "R", "S", "T", "U", "V", "W", "X", "Y", "Z">>
LowerCase == <<"a", "b", "c", "d", "e", "f", "g", "h", "i", "j", "k", "l", "m", "n", "o", "p", "q", "r", "s", "t", "u", "v", "w", "x", "y", "z">>

ToLower(c) ==
    IF \E i \in 1..Len(UpperCase) : UpperCase[i] = c
    THEN LowerCase[CHOOSE i \in 1..Len(UpperCase) : UpperCase[i] = c]
    ELSE c

EqualsIgnoreCase(s1, s2) ==
    /\ Len(s1) = Len(s2)
    /\ \A i \in 1..Len(s1) : ToLower(s1[i]) = ToLower(s2[i])

\* the value a Get...() conversion yields when it throws std::invalid_argument
InvalidArgument == "invalid_argument"

GetXrFormFactor(formFactorStr) ==
    IF EqualsIgnoreCase(formFactorStr, <<"H", "m", "d">>) THEN "HEAD_MOUNTED_DISPLAY"
    ELSE IF EqualsIgnoreCase(formFactorStr, <<"H", "a", "n", "d", "h", "e", "l", "d">>) THEN "HANDHELD_DISPLAY"
    ELSE InvalidArgument

GetXrViewConfigurationType(viewConfigurationStr) ==
    IF EqualsIgnoreCase(viewConfigurationStr, <<"M", "o", "n", "o">>) THEN "PRIMARY_MONO"
    ELSE IF EqualsIgnoreCase(viewConfigurationStr, <<"S", "t", "e", "r", "e", "o">>) THEN "PRIMARY_STEREO"
    ELSE InvalidArgument

GetXrEnvironmentBlendMode(environmentBlendModeStr) ==
    IF EqualsIgnoreCase(environmentBlendModeStr, <<"O", "p", "a", "q", "u", "e">>) THEN "OPAQUE"
    ELSE IF EqualsIgnoreCase(environmentBlendModeStr, <<"A", "d", "d", "i", "t", "i", "v", "e">>) THEN "ADDITIVE"
    ELSE IF EqualsIgnoreCase(environmentBlendModeStr, <<"A", "l", "p", "h", "a", "B", "l", "e", "n", "d">>) THEN "ALPHA_BLEND"
    ELSE InvalidArgument

\* the create info of a reference space: its type and the name of its pose offset
SpaceInfo(type, pose) == [referenceSpaceType |-> type, poseInReferenceSpace |-> pose]

GetXrReferenceSpaceCreateInfo(referenceSpaceTypeStr) ==
    IF EqualsIgnoreCase(referenceSpaceTypeStr, <<"V", "i", "e", "w">>)
        THEN SpaceInfo("View", "identity")
    ELSE IF EqualsIgnoreCase(referenceSpaceTypeStr, <<"V", "i", "e", "w", "F", "r", "o", "n", "t">>)
        THEN SpaceInfo("View", "translate(0,0,-2)")
    ELSE IF EqualsIgnoreCase(referenceSpaceTypeStr, <<"L", "o", "c", "a", "l">>)
        THEN SpaceInfo("Local", "identity")
    ELSE IF EqualsIgnoreCase(referenceSpaceTypeStr, <<"S", "t", "a", "g", "e">>)
        THEN SpaceInfo("Stage", "identity")
    ELSE IF EqualsIgnoreCase(referenceSpaceTypeStr, <<"S", "t", "a", "g", "e", "L", "e", "f", "t">>)
        THEN SpaceInfo("Stage", "rotateY(0) translate(-2,0,-2)")
    ELSE IF EqualsIgnoreCase(referenceSpaceTypeStr, <<"S", "t", "a", "g", "e", "R", "i", "g", "h", "t">>)
        THEN SpaceInfo("Stage", "rotateY(0) translate(2,0,-2)")
    ELSE IF EqualsIgnoreCase(referenceSpaceTypeStr, <<"S", "t", "a", "g", "e", "L", "e", "f", "t", "R", "o", "t", "a", "t", "e", "d">>)
        THEN SpaceInfo("Stage", "rotateY(3.14/3) translate(-2,0.5,-2)")
    ELSE IF EqualsIgnoreCase(referenceSpaceTypeStr, <<"S", "t", "a", "g", "e", "R", "i", "g", "h", "t", "R", "o", "t", "a", "t", "e", "d">>)
        THEN SpaceInfo("Stage", "rotateY(-3.14/3) translate(2,0.5,-2)")
    ELSE SpaceInfo(InvalidArgument, "")

\* The configurations a program object is constructed with: the default one,
\* the same in another letter case, the other recognized values, and one
\* configuration per string that is outside its enumeration.
Options(ff, vc, bm, as) ==
    [FormFactor |-> ff, ViewConfiguration |-> vc, EnvironmentBlendMode |-> bm, AppSpace |-> as]

OptionsInputs ==
    {Options(<<"H", "m", "d">>, <<"S", "t", "e", "r", "e", "o">>, <<"O", "p", "a", "q", "u", "e">>, <<"L", "o", "c", "a", "l">>),
     Options(<<"h", "M", "D">>, <<"S", "T", "E", "R", "E", "O">>, <<"o", "p", "a", "q", "u", "e">>, <<"s", "t", "a", "g", "e", "l", "e", "f", "t", "r", "o", "t", "a", "t", "e", "d">>),
     Options(<<"H", "a", "n", "d", "h", "e", "l", "d">>, <<"M", "o", "n", "o">>, <<"A", "l", "p", "h", "a", "B", "l", "e", "n", "d">>, <<"V", "i", "e", "w", "F", "r", "o", "n", "t">>),
     Options(<<"H", "m", "d", "x">>, <<"S", "t", "e", "r", "e", "o">>, <<"O", "p", "a", "q", "u", "e">>, <<"L", "o", "c", "a", "l">>),
     Options(<<"H", "m", "d">>, <<"S", "t", "e", "r", "e">>, <<"O", "p", "a", "q", "u", "e">>, <<"L", "o", "c", "a", "l">>),
     Options(<<"H", "m", "d">>, <<"S", "t", "e", "r", "e", "o">>, << >>, <<"L", "o", "c", "a", "l">>),
     Options(<<"H", "m", "d">>, <<"S", "t", "e", "r", "e", "o">>, <<"A", "d", "d", "i", "t", "i", "v", "e">>, <<"L", "o", "c", "a", "1">>)}

IsRecognized(o) ==
    /\ GetXrFormFactor(o.FormFactor) # InvalidArgument
    /\ GetXrViewConfigurationType(o.ViewConfiguration) # InvalidArgument
    /\ GetXrEnvironmentBlendMode(o.EnvironmentBlendMode) # InvalidArgument
    /\ GetXrReferenceSpaceCreateInfo(o.AppSpace).referenceSpaceType # InvalidArgument

----------------------------------------------------------------------------
(* Start-up: CreateInstance, InitializeSystem, InitializeSession.          *)
(*                                                                         *)
(* A public operation is one step.  Its body is a chain of stages over a   *)
(* record of the members it can write; a stage that follows a throw does   *)
(* nothing.  `failAt` names the runtime or plugin call that fails in this  *)
(* execution ("none": every call succeeds).  The result of the chain is    *)
(* bound with \E r \in {...}, which evaluates it once per step.            *)

XR_NULL_SYSTEM_ID == 0
\* the handles the runtime returns
InstanceHandle == 1
SystemIdValue == 1
ActionSetHandle == 1
AppSpaceHandle == 8
LeftHandSpace == 9
RightHandSpace == 10
\* the value of a member that was never assigned: the std::array members of
\* InputState that have no initializer
Indeterminate == -1

\* Side::LEFT (0) and Side::RIGHT (1) as indices of 1-based sequences
LEFT == 1
RIGHT == 2

\* the most reference-space creations the runtime refuses in one start-up
MaxSpaceFailures == 1

Throw(st, e) == [st EXCEPT !.thrown = e]
Issue(st, fn, arg) == [st EXCEPT !.calls = Append(@, Call(fn, arg))]
\* a runtime call that throws when it fails
Checked(st, fn, arg, failAt) ==
    IF failAt = fn THEN Throw(Issue(st, fn, arg), "xr_error") ELSE Issue(st, fn, arg)
Ok(st) == st.thrown = "none"

------------------------------------------------------------
\* CreateInstance: LogLayersAndExtensions, CreateInstanceInternal, LogInstanceInfo

CreateInstanceFailures == {"none", "xrEnumerateInstanceExtensionProperties", "xrCreateInstance",
                           "xrGetInstanceProperties"}

LogLayersAndExtensions(st, failAt) ==
    Checked(st, "xrEnumerateInstanceExtensionProperties", "", failAt)

CreateInstanceInternal(st, failAt) ==
    IF ~Ok(st) THEN st
    ELSE IF st.instance # XR_NULL_HANDLE THEN Throw(st, "logic_error")
    ELSE LET c == Checked(st, "xrCreateInstance", "", failAt)
         IN  IF Ok(c) THEN [c EXCEPT !.instance = InstanceHandle] ELSE c

LogInstanceInfo(st, failAt) ==
    IF ~Ok(st) THEN st
    ELSE IF st.instance = XR_NULL_HANDLE THEN Throw(st, "logic_error")
    ELSE Checked(st, "xrGetInstanceProperties", "", failAt)

CreateInstanceResult(failAt) ==
    LogInstanceInfo(
        CreateInstanceInternal(
            LogLayersAndExtensions([instance |-> m_instance, calls |-> <<>>, thrown |-> "none"],
                                   failAt),
            failAt),
        failAt)

\* What the runtime can do to one execution: the call it fails, if the
\* execution gets to it
CreateInstanceInputs ==
    {f \in CreateInstanceFailures :
        f = "none" \/ CreateInstanceResult(f) # CreateInstanceResult("none")}

CreateInstance ==
    /\ pc = "idle"
    /\ \E failAt \in CreateInstanceInputs :
         \E r \in {CreateInstanceResult(failAt)} :
             /\ m_instance' = r.instance
             /\ reported' = Reported("CreateInstance", [failAt |-> failAt])
             /\ calls' = r.calls
             /\ thrown' = r.thrown
    /\ UNCHANGED <<m_session, m_appSpace, m_systemId, m_visualizedSpaces, m_input,
                   configVars, swapchainVars, sessionVars, signalVars,
                   pc, eventQueue, eventsQueued, handled, initializeDeviceCalls,
                   actionSetAttached, handsInUse, systemViews, systemImages>>

------------------------------------------------------------
\* InitializeSystem

InitializeSystemFailures == {"none", "xrGetSystem", "LogViewConfigurations", "InitializeDevice"}

InitializeSystemPrecondition(st) ==
    IF m_instance = XR_NULL_HANDLE \/ st.systemId # XR_NULL_SYSTEM_ID
    THEN Throw(st, "logic_error") ELSE st

\* the three assignments from the configuration strings; the first string
\* outside its enumeration throws, after the assignments before it
ResolveConfiguration(st) ==
    IF ~Ok(st) THEN st
    ELSE LET ff == GetXrFormFactor(m_options.FormFactor)
             vc == GetXrViewConfigurationType(m_options.ViewConfiguration)
             bm == GetXrEnvironmentBlendMode(m_options.EnvironmentBlendMode)
         IN  IF ff = InvalidArgument THEN Throw(st, InvalidArgument)
             ELSE IF vc = InvalidArgument
                 THEN Throw([st EXCEPT !.formFactor = ff], InvalidArgument)
             ELSE IF bm = InvalidArgument
                 THEN Throw([st EXCEPT !.formFactor = ff, !.viewConfigType = vc], InvalidArgument)
             ELSE [st EXCEPT !.formFactor = ff, !.viewConfigType = vc,
                             !.environmentBlendMode = bm]

GetSystem(st, failAt) ==
    IF ~Ok(st) THEN st
    ELSE LET c == Checked(st, "xrGetSystem", st.formFactor, failAt)
         IN  IF Ok(c) THEN [c EXCEPT !.systemId = SystemIdValue] ELSE c

\* LogViewConfigurations and LogEnvironmentBlendMode: queries and CHECKs that
\* write nothing; any of them can end the operation
LogViewConfigurations(st, failAt) ==
    IF ~Ok(st) THEN st
    ELSE LET c == Issue(st, "xrEnumerateViewConfigurations", "")
         IN  IF failAt = "LogViewConfigurations" THEN Throw(c, "xr_error") ELSE c

InitializeDevice(st, failAt) ==
    IF ~Ok(st) THEN st
    ELSE LET c == [Issue(st, "InitializeDevice", "") EXCEPT !.deviceCalls = @ + 1]
         IN  IF failAt = "InitializeDevice" THEN Throw(c, "plugin_error") ELSE c

\* the members InitializeSystem can write, as it finds them
InitializeSystemStart ==
    [formFactor |-> m_formFactor, viewConfigType |-> m_viewConfigType,
     environmentBlendMode |-> m_environmentBlendMode,
     systemId |-> m_systemId, deviceCalls |-> initializeDeviceCalls,
     calls |-> <<>>, thrown |-> "none"]

InitializeSystemResult(failAt) ==
    InitializeDevice(
        LogViewConfigurations(
            GetSystem(
                ResolveConfiguration(
                    InitializeSystemPrecondition(InitializeSystemStart)),
                failAt),
            failAt),
        failAt)

\* What the runtime and the plugin can do to one execution: the call that
\* fails, if the execution gets to it
InitializeSystemInputs ==
    {f \in InitializeSystemFailures :
        f = "none" \/ InitializeSystemResult(f) # InitializeSystemResult("none")}

InitializeSystem ==
    /\ pc = "idle"
    /\ \E failAt \in InitializeSystemInputs :
         \E r \in {InitializeSystemResult(failAt)} :
             /\ m_formFactor' = r.formFactor
             /\ m_viewConfigType' = r.viewConfigType
             /\ m_environmentBlendMode' = r.environmentBlendMode
             /\ m_systemId' = r.systemId
             /\ initializeDeviceCalls' = r.deviceCalls
             /\ reported' = Reported("InitializeSystem", [failAt |-> failAt])
             /\ calls' = r.calls
             /\ thrown' = r.thrown
    /\ UNCHANGED <<m_instance, m_session, m_appSpace, m_visualizedSpaces, m_input, m_options,
                   swapchainVars, sessionVars, signalVars,
                   pc, eventQueue, eventsQueued, handled, actionSetAttached, handsInUse, systemViews, systemImages>>

------------------------------------------------------------
\* InitializeSession: session creation, LogReferenceSpaces, InitializeActions,
\* CreateVisualizedSpaces, and the app space

InitializeSessionFailures ==
    {"none", "xrCreateSession", "xrEnumerateReferenceSpaces", "xrCreateActionSet",
     "xrStringToPath", "xrCreateAction/grab_object", "xrCreateAction/hand_pose",
     "xrCreateAction/vibrate_hand", "xrCreateAction/quit_session",
     "xrSuggestInteractionProfileBindings", "xrCreateActionSpace/left",
     "xrCreateActionSpace/right", "xrAttachSessionActionSets", "xrCreateReferenceSpace/app"}

\* the names CreateVisualizedSpaces passes to GetXrReferenceSpaceCreateInfo, in order;
\* the space created for the i-th name gets handle i
VisualizedSpaceNames ==
    <<<<"V", "i", "e", "w", "F", "r", "o", "n", "t">>,
      <<"L", "o", "c", "a", "l">>,
      <<"S", "t", "a", "g", "e">>,
      <<"S", "t", "a", "g", "e", "L", "e", "f", "t">>,
      <<"S", "t", "a", "g", "e", "R", "i", "g", "h", "t">>,
      <<"S", "t", "a", "g", "e", "L", "e", "f", "t", "R", "o", "t", "a", "t", "e", "d">>,
      <<"S", "t", "a", "g", "e", "R", "i", "g", "h", "t", "R", "o", "t", "a", "t", "e", "d">>>>

\* the create info CreateVisualizedSpaces computes for each name
VisualizedSpaceInfos ==
    [i \in 1..Len(VisualizedSpaceNames) |-> GetXrReferenceSpaceCreateInfo(VisualizedSpaceNames[i])]

\* the sets of visualized spaces the runtime may refuse to create
RefusedSpaceSets ==
    {r \in SUBSET (1..Len(VisualizedSpaceNames)) : Cardinality(r) <= MaxSpaceFailures}

InitializeSessionPrecondition(st) ==
    IF m_instance = XR_NULL_HANDLE \/ st.session # XR_NULL_HANDLE
    THEN Throw(st, "logic_error") ELSE st

\* instance.createSession(...): the runtime refuses a null system id
CreateSession(st, failAt) ==
    IF ~Ok(st) THEN st
    ELSE LET c == Issue(Issue(st, "GetGraphicsBinding", ""), "xrCreateSession", "")
         IN  IF failAt = "xrCreateSession" \/ m_systemId = XR_NULL_SYSTEM_ID
             THEN Throw(c, "xr_error")
             ELSE [c EXCEPT !.session = SessionHandle]

LogReferenceSpaces(st, failAt) ==
    IF ~Ok(st) THEN st
    ELSE IF st.session = XR_NULL_HANDLE THEN Throw(st, "logic_error")
    ELSE Checked(st, "xrEnumerateReferenceSpaces", "", failAt)

\* one call of InitializeActions that throws on failure and stores its result
\* in the field `field` of m_input
CreateInput(st, fn, failAt, field, value) ==
    IF ~Ok(st) THEN st
    ELSE LET c == Checked(st, fn, "", failAt)
         IN  IF Ok(c) THEN [c EXCEPT !.input[field] = value] ELSE c

InitializeActions(st, failAt) ==
    LET pre == IF Ok(st) /\ m_instance = XR_NULL_HANDLE THEN Throw(st, "logic_error") ELSE st
        s1 == CreateInput(pre, "xrCreateActionSet", failAt, "actionSet", ActionSetHandle)
        s2 == CreateInput(s1, "xrStringToPath", failAt, "handSubactionPath", <<LEFT, RIGHT>>)
        s3 == CreateInput(s2, "xrCreateAction/grab_object", failAt, "grabAction", 1)
        s4 == CreateInput(s3, "xrCreateAction/hand_pose", failAt, "poseAction", 2)
        s5 == CreateInput(s4, "xrCreateAction/vibrate_hand", failAt, "vibrateAction", 3)
        s6 == CreateInput(s5, "xrCreateAction/quit_session", failAt, "quitAction", 4)
        s7 == IF Ok(s6) THEN Checked(s6, "xrSuggestInteractionProfileBindings", "", failAt)
              ELSE s6
        s8 == CreateInput(s7, "xrCreateActionSpace/left", failAt, "handSpace",
                          <<LeftHandSpace, s7.input.handSpace[RIGHT]>>)
        s9 == CreateInput(s8, "xrCreateActionSpace/right", failAt, "handSpace",
                          <<s8.input.handSpace[LEFT], RightHandSpace>>)
        s10 == IF Ok(s9) THEN Checked(s9, "xrAttachSessionActionSets", "", failAt) ELSE s9
    IN  IF Ok(s10) THEN [s10 EXCEPT !.attached = TRUE] ELSE s10

\* the loop of CreateVisualizedSpaces from the i-th name on: a refused
\* creation is logged and the loop goes on
\* a loop that gives up at the first creation the runtime refuses
RECURSIVE CreateVisualizedSpacesFrom_StopsAtRefusal(_, _, _)
CreateVisualizedSpacesFrom_StopsAtRefusal(st, i, refused) ==
    IF i > Len(VisualizedSpaceNames) THEN st
    ELSE LET c == Issue(st, "xrCreateReferenceSpace", VisualizedSpaceInfos[i])
         IN  IF i \in refused THEN c
             ELSE CreateVisualizedSpacesFrom_StopsAtRefusal(
                      [c EXCEPT !.visualizedSpaces = Append(@, i)], i + 1, refused)

RECURSIVE CreateVisualizedSpacesFrom(_, _, _)
CreateVisualizedSpacesFrom(st, i, refused) ==
    IF i > Len(VisualizedSpaceNames) THEN st
    ELSE LET info == VisualizedSpaceInfos[i]
         IN  IF info.referenceSpaceType = InvalidArgument THEN Throw(st, InvalidArgument)
             ELSE LET c == Issue(st, "xrCreateReferenceSpace", info)
                  IN  CreateVisualizedSpacesFrom(
                          IF i \in refused THEN c
                          ELSE [c EXCEPT !.visualizedSpaces = Append(@, i)],
                          i + 1, refused)

CreateVisualizedSpaces(st, refused) ==
    IF ~Ok(st) THEN st
    ELSE IF st.session = XR_NULL_HANDLE THEN Throw(st, "logic_error")
    ELSE CreateVisualizedSpacesFrom(st, 1, refused)

\* m_appSpace = session.createReferenceSpace(GetXrReferenceSpaceCreateInfo(AppSpace))
CreateAppSpace(st, failAt) ==
    IF ~Ok(st) THEN st
    ELSE LET info == GetXrReferenceSpaceCreateInfo(m_options.AppSpace)
         IN  IF info.referenceSpaceType = InvalidArgument THEN Throw(st, InvalidArgument)
             ELSE LET c == Issue(st, "xrCreateReferenceSpace", info)
                  IN  IF failAt = "xrCreateReferenceSpace/app" THEN Throw(c, "xr_error")
                      ELSE [c EXCEPT !.appSpace = AppSpaceHandle]

\* the members InitializeSession can write, as it finds them
InitializeSessionStart ==
    [session |-> m_session, input |-> m_input,
     visualizedSpaces |-> m_visualizedSpaces, appSpace |-> m_appSpace,
     attached |-> actionSetAttached,
     calls |-> <<>>, thrown |-> "none"]

InitializeSessionResult(failAt, refused) ==
    CreateAppSpace(
        CreateVisualizedSpaces(
            InitializeActions(
                LogReferenceSpaces(
                    CreateSession(
                        InitializeSessionPrecondition(InitializeSessionStart),
                        failAt),
                    failAt),
                failAt),
            refused),
        failAt)

\* What the runtime can do to one execution: the call that fails, and the
\* visualized spaces it refuses (which only an execution that gets to
\* CreateVisualizedSpaces can tell apart; one that fails its precondition
\* sees nothing).
InitializeSessionInputs ==
    IF ~Ok(InitializeSessionPrecondition(InitializeSessionStart))
    THEN {[failAt |-> "none", refused |-> {}]}
    ELSE
    {[failAt |-> f, refused |-> {}] :
        f \in InitializeSessionFailures \ {"none", "xrCreateReferenceSpace/app"}}
    \cup {[failAt |-> f, refused |-> r] :
            f \in {"none", "xrCreateReferenceSpace/app"}, r \in RefusedSpaceSets}

InitializeSession ==
    /\ pc = "idle"
    /\ \E in \in InitializeSessionInputs :
         \E r \in {InitializeSessionResult(in.failAt, in.refused)} :
             /\ m_session' = r.session
             /\ m_input' = r.input
             /\ m_visualizedSpaces' = r.visualizedSpaces
             /\ m_appSpace' = r.appSpace
             /\ actionSetAttached' = r.attached
             /\ reported' = Reported("InitializeSession", in)
             /\ calls' = r.calls
             /\ thrown' = r.thrown
    /\ UNCHANGED <<m_instance, m_systemId, configVars, swapchainVars, sessionVars, signalVars,
                   pc, eventQueue, eventsQueued, handled, initializeDeviceCalls,
                   handsInUse, systemViews, systemImages>>

------------------------------------------------------------
\* CreateSwapchains

\* the most views the runtime enumerates for a view configuration
MaxViews == 2
\* the most images the runtime reports for one swapchain
MaxImages == 2

\* the view descriptions the runtime may enumerate
ViewConfigurationViews ==
    {[recommendedImageRectWidth |-> 4, recommendedImageRectHeight |-> 3],
     [recommendedImageRectWidth |-> 8, recommendedImageRectHeight |-> 6]}

SeqsUpTo(S, n) == UNION {[1..k -> S] : k \in 0..n}

\* the format SelectColorSwapchainFormat picks from the runtime's list
SelectedColorFormat == 1

CreateSwapchainsFailures ==
    {"none", "xrGetSystemProperties", "xrEnumerateViewConfigurationViews",
     "xrEnumerateSwapchainFormats", "xrCreateSwapchain", "xrEnumerateSwapchainImages"}

\* a CreateSwapchains that does not ask for a session
CreateSwapchainsPrecondition_NoSessionCheck(st) ==
    IF st.swapchains # <<>> \/ st.configViews # <<>>
    THEN Throw(st, "logic_error") ELSE st

\* CHECK(m_session != XR_NULL_HANDLE); CHECK(m_swapchains.empty()); CHECK(m_configViews.empty())
CreateSwapchainsPrecondition(st) ==
    IF m_session = XR_NULL_HANDLE \/ st.swapchains # <<>> \/ st.configViews # <<>>
    THEN Throw(st, "logic_error") ELSE st

GetSystemProperties(st, failAt) ==
    IF ~Ok(st) THEN st ELSE Checked(st, "xrGetSystemProperties", "", failAt)

\* a CreateSwapchains that takes any view configuration
CheckViewConfigurationSupported_AnyType(st) == st

\* CHECK_MSG(m_viewConfigType == XR_VIEW_CONFIGURATION_TYPE_PRIMARY_STEREO,
\*           "Unsupported view configuration type"): the failed check throws
\* with this message
CheckViewConfigurationSupported(st) ==
    IF ~Ok(st) THEN st
    ELSE IF m_viewConfigType # "PRIMARY_STEREO"
         THEN Throw(st, "logic_error: Unsupported view configuration type")
    ELSE st

\* m_configViews = enumerate...; m_views.resize(m_configViews.size())
CacheConfigViews(st, views, failAt) ==
    IF ~Ok(st) THEN st
    ELSE LET c == Checked(st, "xrEnumerateViewConfigurationViews", m_viewConfigType, failAt)
         IN  IF Ok(c) THEN [c EXCEPT !.configViews = views, !.views = Len(views)] ELSE c

SelectFormat(st, failAt) ==
    IF ~Ok(st) \/ st.configViews = <<>> THEN st
    ELSE LET c == Checked(st, "xrEnumerateSwapchainFormats", "", failAt)
         IN  IF Ok(c)
             THEN [Issue(c, "SelectColorSwapchainFormat", "") EXCEPT
                      !.colorFormat = SelectedColorFormat]
             ELSE c

\* a pass of the loop that, when a call fails, gives up the swapchain it has
\* created for the view
CreateSwapchainForView_UndoesOnFailure(st, i, imageCount, failAt, failView) ==
    LET vp == st.configViews[i]
        info == [width |-> vp.recommendedImageRectWidth,
                 height |-> vp.recommendedImageRectHeight,
                 format |-> st.colorFormat, arraySize |-> 1, mipCount |-> 1, faceCount |-> 1]
        c == Issue(st, "xrCreateSwapchain", info)
        handle == Len(st.swapchains) + 1
        pushed == [c EXCEPT !.swapchains =
                       Append(@, [handle |-> handle, width |-> info.width, height |-> info.height])]
        counted == Issue(pushed, "xrEnumerateSwapchainImages", handle)
        e == Issue(Issue(counted, "AllocateSwapchainImageStructs", imageCount),
                   "xrEnumerateSwapchainImages", handle)
    IN  IF failAt = "xrCreateSwapchain" /\ failView = i THEN Throw(c, "xr_error")
        ELSE IF failAt = "xrEnumerateSwapchainImages" /\ failView = i
            THEN [Throw(counted, "xr_error") EXCEPT !.swapchains = st.swapchains]
        ELSE [e EXCEPT !.swapchainImages =
                  [h \in DOMAIN @ \cup {handle} |->
                      IF h \in DOMAIN @ THEN @[h] ELSE [k \in 1..imageCount |-> k]]]

\* one pass of the loop over the views: create the swapchain of view i, push it,
\* count its images, enumerate them and insert them into the image map
CreateSwapchainForView(st, i, imageCount, failAt, failView) ==
    LET vp == st.configViews[i]
        info == [width |-> vp.recommendedImageRectWidth,
                 height |-> vp.recommendedImageRectHeight,
                 format |-> st.colorFormat, arraySize |-> 1, mipCount |-> 1, faceCount |-> 1]
        c == Issue(st, "xrCreateSwapchain", info)
        handle == Len(st.swapchains) + 1
        pushed == [c EXCEPT !.swapchains =
                       Append(@, [handle |-> handle, width |-> info.width, height |-> info.height])]
        counted == Issue(pushed, "xrEnumerateSwapchainImages", handle)
        e == Issue(Issue(counted, "AllocateSwapchainImageStructs", imageCount),
                   "xrEnumerateSwapchainImages", handle)
    IN  IF failAt = "xrCreateSwapchain" /\ failView = i THEN Throw(c, "xr_error")
        ELSE IF failAt = "xrEnumerateSwapchainImages" /\ failView = i
            THEN Throw(counted, "xr_error")
        ELSE [e EXCEPT !.swapchainImages =
                  [h \in DOMAIN @ \cup {handle} |->
                      IF h \in DOMAIN @ THEN @[h] ELSE [k \in 1..imageCount |-> k]]]

\* a loop that creates the swapchain of the first view only
CreateSwapchainsFrom_FirstViewOnly(st, i, imageCounts, failAt, failView) ==
    IF ~Ok(st) \/ i > Len(st.configViews) \/ i > 1 THEN st
    ELSE CreateSwapchainForView(st, i, imageCounts[i], failAt, failView)

RECURSIVE CreateSwapchainsFrom(_, _, _, _, _)
CreateSwapchainsFrom(st, i, imageCounts, failAt, failView) ==
    IF ~Ok(st) \/ i > Len(st.configViews) THEN st
    ELSE CreateSwapchainsFrom(CreateSwapchainForView(st, i, imageCounts[i], failAt, failView),
                              i + 1, imageCounts, failAt, failView)

\* the members CreateSwapchains can write, as it finds them
CreateSwapchainsStart ==
    [configViews |-> m_configViews, views |-> m_views,
     swapchains |-> m_swapchains, swapchainImages |-> m_swapchainImages,
     colorFormat |-> m_colorSwapchainFormat,
     calls |-> <<>>, thrown |-> "none"]

CreateSwapchainsResult(views, imageCounts, failAt, failView) ==
    CreateSwapchainsFrom(
        SelectFormat(
            CacheConfigViews(
                CheckViewConfigurationSupported(
                    GetSystemProperties(
                        CreateSwapchainsPrecondition(CreateSwapchainsStart),
                        failAt)),
                views, failAt),
            failAt),
        1, imageCounts, failAt, failView)

\* the two views of a stereo system, of different sizes
StereoViews ==
    <<[recommendedImageRectWidth |-> 4, recommendedImageRectHeight |-> 3],
      [recommendedImageRectWidth |-> 8, recommendedImageRectHeight |-> 6]>>

\* What the runtime can do to one execution: the call that fails (for the
\* calls of the loop, in the pass for view `failView`); the views it
\* enumerates and the image count of each swapchain are those of the system.
\* An execution that fails its precondition sees no failure.
CreateSwapchainsInputs ==
    LET In(f, i) == [views |-> systemViews, imageCounts |-> systemImages,
                     failAt |-> f, failView |-> i]
    IN  IF ~Ok(CreateSwapchainsPrecondition(CreateSwapchainsStart))
        THEN {In("none", 1)}
        ELSE
        {In(f, 1) :
            f \in {"none", "xrGetSystemProperties", "xrEnumerateViewConfigurationViews",
                   "xrEnumerateSwapchainFormats"}}
        \cup {In(f, i) :
                f \in {"xrCreateSwapchain", "xrEnumerateSwapchainImages"},
                i \in 1..Len(systemViews)}

CreateSwapchains ==
    /\ pc = "idle"
    /\ \E in \in CreateSwapchainsInputs :
         \E r \in {CreateSwapchainsResult(in.views, in.imageCounts, in.failAt, in.failView)} :
             /\ m_configViews' = r.configViews
             /\ m_views' = r.views
             /\ m_swapchains' = r.swapchains
             /\ m_swapchainImages' = r.swapchainImages
             /\ m_colorSwapchainFormat' = r.colorFormat
             /\ reported' = Reported("CreateSwapchains", in)
             /\ calls' = r.calls
             /\ thrown' = r.thrown
    /\ UNCHANGED <<handleVars, configVars, sessionVars, signalVars,
                   pc, eventQueue, eventsQueued, handled, initializeDeviceCalls,
                   actionSetAttached, handsInUse, systemViews, systemImages>>

----------------------------------------------------------------------------
(* The frame loop: PollActions and RenderFrame.                            *)

XR_FALSE == 0
XR_TRUE == 1

\* A call the runtime fails for the hand, space or view `failIndex`
CheckedAt(st, fn, arg, index, failAt, failIndex) ==
    IF failAt = fn /\ failIndex = index
    THEN Throw(Issue(st, fn, arg), "xr_error") ELSE Issue(st, fn, arg)

------------------------------------------------------------
\* PollActions

\* grab values the runtime may report, in thousandths; the hand scale is kept
\* in thousandths too, and every value here has an exact half
GrabValues == {0, 900, 902, 1000}

InactiveGrab == [isActive |-> XR_FALSE, currentState |-> 0]
GrabStates == {InactiveGrab} \cup {[isActive |-> XR_TRUE, currentState |-> g] : g \in GrabValues}

InactiveQuit == [isActive |-> XR_FALSE, changedSinceLastSync |-> XR_FALSE, currentState |-> XR_FALSE]
QuitStates == [isActive : {XR_FALSE, XR_TRUE}, changedSinceLastSync : {XR_FALSE, XR_TRUE},
               currentState : {XR_FALSE, XR_TRUE}]

\* the members PollActions can write, as it finds them
PollActionsStart == [input |-> m_input, calls |-> <<>>, thrown |-> "none"]

\* m_input.handActive = {XR_FALSE, XR_FALSE}
ResetHandActive(st) == [st EXCEPT !.input.handActive = <<XR_FALSE, XR_FALSE>>]

\* CHECK_XRCMD(xrSyncActions(...)): the runtime refuses a null session and an
\* action set that is not attached to the session
SyncActions(st, failAt) ==
    LET c == Issue(st, "xrSyncActions", st.input.actionSet)
    IN  IF failAt = "xrSyncActions" \/ m_session = XR_NULL_HANDLE \/ ~actionSetAttached
        THEN Throw(c, "xr_error") ELSE c

\* a grab half that vibrates from a squeeze of 0.9 on
PollGrab_AtThreshold(st, hand, grab, failAt, failHand) ==
    IF ~Ok(st) THEN st
    ELSE LET read == CheckedAt(st, "xrGetActionStateFloat", hand, hand, failAt, failHand)
             scaled == [read EXCEPT !.input.handScale[hand] = 1000 - (grab.currentState \div 2)]
         IN  IF ~Ok(read) \/ grab.isActive # XR_TRUE THEN read
             ELSE IF grab.currentState >= 900
                 THEN CheckedAt(scaled, "xrApplyHapticFeedback", hand, hand, failAt, failHand)
                 ELSE scaled

\* a grab half that shrinks the hand to nothing at a full squeeze
PollGrab_ShrinksToNothing(st, hand, grab, failAt, failHand) ==
    IF ~Ok(st) THEN st
    ELSE LET read == CheckedAt(st, "xrGetActionStateFloat", hand, hand, failAt, failHand)
             scaled == [read EXCEPT !.input.handScale[hand] = 1000 - grab.currentState]
         IN  IF ~Ok(read) \/ grab.isActive # XR_TRUE THEN read
             ELSE IF grab.currentState > 900
                 THEN CheckedAt(scaled, "xrApplyHapticFeedback", hand, hand, failAt, failHand)
                 ELSE scaled

\* a grab half that opens the rendered hand when the grab is inactive
PollGrab_OpensWhenInactive(st, hand, grab, failAt, failHand) ==
    IF ~Ok(st) THEN st
    ELSE LET read == CheckedAt(st, "xrGetActionStateFloat", hand, hand, failAt, failHand)
             scaled == [read EXCEPT !.input.handScale[hand] = 1000 - (grab.currentState \div 2)]
         IN  IF ~Ok(read) THEN read
             ELSE IF grab.isActive # XR_TRUE THEN [read EXCEPT !.input.handScale[hand] = 1000]
             ELSE IF grab.currentState > 900
                 THEN CheckedAt(scaled, "xrApplyHapticFeedback", hand, hand, failAt, failHand)
                 ELSE scaled

\* the grab half of the loop body for one hand
PollGrab(st, hand, grab, failAt, failHand) ==
    IF ~Ok(st) THEN st
    ELSE LET read == CheckedAt(st, "xrGetActionStateFloat", hand, hand, failAt, failHand)
             scaled == [read EXCEPT !.input.handScale[hand] = 1000 - (grab.currentState \div 2)]
         IN  IF ~Ok(read) \/ grab.isActive # XR_TRUE THEN read
             ELSE IF grab.currentState > 900
                 THEN CheckedAt(scaled, "xrApplyHapticFeedback", hand, hand, failAt, failHand)
                 ELSE scaled

\* the pose half of the loop body for one hand
PollPose(st, hand, poseIsActive, failAt, failHand) ==
    IF ~Ok(st) THEN st
    ELSE LET read == CheckedAt(st, "xrGetActionStatePose", hand, hand, failAt, failHand)
         IN  IF Ok(read) THEN [read EXCEPT !.input.handActive[hand] = poseIsActive] ELSE read

\* for (auto hand : {Side::LEFT, Side::RIGHT})
PollHands(st, grab, pose, failAt, failHand) ==
    LET left == PollPose(PollGrab(st, LEFT, grab[LEFT], failAt, failHand),
                         LEFT, pose[LEFT], failAt, failHand)
    IN  PollPose(PollGrab(left, RIGHT, grab[RIGHT], failAt, failHand),
                 RIGHT, pose[RIGHT], failAt, failHand)

\* a quit action that asks for the exit as long as the button is held
PollQuit_WhileHeld(st, quit, failAt) ==
    IF ~Ok(st) THEN st
    ELSE LET read == Checked(st, "xrGetActionStateBoolean", "", failAt)
         IN  IF Ok(read) /\ quit.isActive = XR_TRUE /\ quit.currentState = XR_TRUE
             THEN Checked(read, "xrRequestExitSession", "", failAt)
             ELSE read

\* the quit action: the exit is requested when it is active, changed and true
PollQuit(st, quit, failAt) ==
    IF ~Ok(st) THEN st
    ELSE LET read == Checked(st, "xrGetActionStateBoolean", "", failAt)
         IN  IF /\ Ok(read)
                /\ quit.isActive = XR_TRUE
                /\ quit.changedSinceLastSync = XR_TRUE
                /\ quit.currentState = XR_TRUE
             THEN Checked(read, "xrRequestExitSession", "", failAt)
             ELSE read

PollActionsResult(in) ==
    PollQuit(
        PollHands(SyncActions(ResetHandActive(PollActionsStart), in.failAt),
                  in.grab, in.pose, in.failAt, in.failHand),
        in.quit, in.failAt)

\* What the runtime can do to one execution: the action states it reports
\* and the call it fails (for the calls of the loop, in the pass for
\* `failHand`).  An execution whose sync is refused sees nothing else; with
\* the controllers put down every action is inactive; an execution that
\* fails does not see the quit action.  With the controllers held, the grab
\* and pose states of the two hands vary freely while the quit action is
\* inactive, and the quit action varies freely with both hands open or both
\* squeezed.
PollActionsInputs ==
    LET In(f, h, g, p, q) == [failAt |-> f, failHand |-> h, grab |-> g, pose |-> p, quit |-> q]
        Idle(f, h) == In(f, h, <<InactiveGrab, InactiveGrab>>, <<XR_FALSE, XR_FALSE>>, InactiveQuit)
        HandFailures == {"xrGetActionStateFloat", "xrApplyHapticFeedback", "xrGetActionStatePose"}
    IN  IF ~Ok(SyncActions(PollActionsStart, "none"))
        THEN {Idle("none", LEFT)}
        ELSE IF ~handsInUse
        THEN {Idle(f, LEFT) : f \in {"none", "xrSyncActions", "xrGetActionStateBoolean"}}
             \cup {Idle(f, h) : f \in HandFailures \ {"xrApplyHapticFeedback"}, h \in {LEFT, RIGHT}}
        ELSE {In("none", LEFT, g, p, InactiveQuit) :
                 g \in [{LEFT, RIGHT} -> GrabStates],
                 p \in [{LEFT, RIGHT} -> {XR_FALSE, XR_TRUE}]}
             \cup {In("none", LEFT, <<g, g>>, <<XR_TRUE, XR_TRUE>>, q) :
                     g \in {InactiveGrab, [isActive |-> XR_TRUE, currentState |-> 1000]},
                     q \in QuitStates}
             \cup {In(f, h, <<g, g>>, <<XR_TRUE, XR_TRUE>>, InactiveQuit) :
                     f \in HandFailures, h \in {LEFT, RIGHT}, g \in GrabStates}
             \cup {In(f, LEFT, <<InactiveGrab, InactiveGrab>>, <<XR_TRUE, XR_TRUE>>, q) :
                     f \in {"xrSyncActions", "xrGetActionStateBoolean", "xrRequestExitSession"},
                     q \in QuitStates}

PollActions ==
    /\ pc = "idle"
    /\ \E in \in PollActionsInputs :
         \E r \in {PollActionsResult(in)} :
             /\ m_input' = r.input
             /\ reported' = Reported("PollActions", in)
             /\ calls' = r.calls
             /\ thrown' = r.thrown
    /\ UNCHANGED <<m_instance, m_session, m_appSpace, m_systemId, m_visualizedSpaces,
                   configVars, swapchainVars, sessionVars, signalVars,
                   pc, eventQueue, eventsQueued, handled, initializeDeviceCalls,
                   actionSetAttached, handsInUse, systemViews, systemImages>>

------------------------------------------------------------
\* RenderFrame and RenderLayer

\* the most spaces whose location the runtime does not report as valid in one frame
MaxUnlocated == 1

ViewStateFlags == {"POSITION_VALID", "ORIENTATION_VALID"}

\* the spaces RenderLayer locates, in order: the visualized spaces, then the hands
LocatedSpaces == m_visualizedSpaces \o m_input.handSpace

\* the edge of the cube drawn for the k-th located space, in tenths of a
\* millimetre: 25 cm for a visualized space, 10 cm times the hand scale for a hand
CubeScale(k) ==
    IF k <= Len(m_visualizedSpaces) THEN 2500
    ELSE m_input.handScale[k - Len(m_visualizedSpaces)]

\* what RenderFrame can write and what it builds on its stack, as it finds them
RenderFrameStart ==
    [swapchainImages |-> m_swapchainImages,
     cubes |-> <<>>, projectionLayerViews |-> <<>>, layers |-> <<>>,
     calls |-> <<>>, thrown |-> "none"]

\* CHECK(m_session != XR_NULL_HANDLE)
RenderFramePrecondition(st) ==
    IF m_session = XR_NULL_HANDLE THEN Throw(st, "logic_error") ELSE st

\* a frame that is begun before the runtime was waited for
BeginFrame_BeforeWait(st, failAt) ==
    IF ~Ok(st) THEN st
    ELSE LET b == Checked(st, "xrBeginFrame", "", failAt)
         IN  IF Ok(b) THEN Checked(b, "xrWaitFrame", "", failAt) ELSE b

\* xrWaitFrame and xrBeginFrame
BeginFrame(st, failAt) ==
    IF ~Ok(st) THEN st
    ELSE LET w == Checked(st, "xrWaitFrame", "", failAt)
         IN  IF Ok(w) THEN Checked(w, "xrBeginFrame", "", failAt) ELSE w

\* xrLocateViews; the runtime refuses a null app space
LocateViews(st, failAt) ==
    LET c == Issue(st, "xrLocateViews", m_appSpace)
    IN  IF failAt = "xrLocateViews" \/ m_appSpace = XR_NULL_HANDLE
        THEN Throw(c, "xr_error") ELSE c

\* the three CHECKs on viewCountOutput
CheckViewCount(st, viewCountOutput) ==
    IF ~Ok(st) THEN st
    ELSE IF /\ viewCountOutput = m_views
            /\ viewCountOutput = Len(m_configViews)
            /\ viewCountOutput = Len(m_swapchains)
         THEN st
         ELSE Throw(st, "logic_error")

\* the two loops over the located spaces, from the k-th on: a failed query
\* throws; a query that succeeds with a qualified result, or without both
\* valid flags, adds no cube
RECURSIVE LocateSpacesFrom(_, _, _)
LocateSpacesFrom(st, k, in) ==
    IF ~Ok(st) \/ k > Len(LocatedSpaces) THEN st
    ELSE LET c == CheckedAt(st, "xrLocateSpace", LocatedSpaces[k], k, in.failAt, in.failIndex)
         IN  LocateSpacesFrom(
                 IF Ok(c) /\ k \notin in.qualified /\ k \notin in.notLocated
                 THEN [c EXCEPT !.cubes = Append(@, [space |-> LocatedSpaces[k],
                                                     scale |-> CubeScale(k)])]
                 ELSE c,
                 k + 1, in)

\* a projection view as projectionLayerViews.resize(viewCountOutput) makes it
EmptyProjectionView == [swapchain |-> XR_NULL_HANDLE, width |-> 0, height |-> 0]

\* the image RenderView is given: m_swapchainImages[handle][index].  The
\* runtime's index is below the count it reported for the swapchain; for a
\* swapchain whose images were never enumerated the element read does not
\* exist, and what is read is indeterminate.
SwapchainImage(images, handle, imageIndex) ==
    IF handle \in DOMAIN images
    THEN LET index == IF imageIndex > Len(images[handle]) THEN Len(images[handle])
                      ELSE imageIndex
         IN  IF index \in DOMAIN images[handle] THEN images[handle][index] ELSE Indeterminate
    ELSE Indeterminate

\* m_swapchainImages after operator[] was applied to handle: a missing key is
\* inserted with no images
ImagesAfterLookup(images, handle) ==
    [h \in DOMAIN images \cup {handle} |-> IF h \in DOMAIN images THEN images[h] ELSE <<>>]

\* the loop over the views, from the i-th of n on: acquire, wait, draw, release
RECURSIVE RenderViewsFrom(_, _, _, _)
RenderViewsFrom(st, i, n, in) ==
    IF ~Ok(st) \/ i > n THEN st
    ELSE LET viewSwapchain == m_swapchains[i]
             handle == viewSwapchain.handle
             acquired == CheckedAt(st, "xrAcquireSwapchainImage", handle, i,
                                   in.failAt, in.failIndex)
             waited == IF Ok(acquired)
                       THEN CheckedAt(acquired, "xrWaitSwapchainImage", handle, i,
                                      in.failAt, in.failIndex)
                       ELSE acquired
             view == [swapchain |-> handle, width |-> viewSwapchain.width,
                      height |-> viewSwapchain.height]
             drawn == Issue([waited EXCEPT
                                !.projectionLayerViews[i] = view,
                                !.swapchainImages = ImagesAfterLookup(@, handle)],
                            "RenderView",
                            [view |-> view,
                             image |-> SwapchainImage(waited.swapchainImages, handle,
                                                      in.imageIndex),
                             format |-> m_colorSwapchainFormat,
                             cubes |-> waited.cubes])
             released == IF in.failAt = "RenderView" /\ in.failIndex = i
                         THEN Throw(drawn, "plugin_error")
                         ELSE CheckedAt(drawn, "xrReleaseSwapchainImage", handle, i,
                                        in.failAt, in.failIndex)
         IN  RenderViewsFrom(IF Ok(waited) THEN released ELSE waited, i + 1, n, in)

\* RenderLayer: the record it leaves and whether it returned true
RenderLayer(st, in) ==
    LET located == LocateViews(st, in.failAt)
        counted == CheckViewCount(located, in.viewCountOutput)
        resized == IF Ok(counted)
                   THEN [counted EXCEPT !.projectionLayerViews =
                                           [i \in 1..in.viewCountOutput |-> EmptyProjectionView]]
                   ELSE counted
        drawn == RenderViewsFrom(LocateSpacesFrom(resized, 1, in), 1, in.viewCountOutput, in)
    IN  IF ~Ok(located) THEN [st |-> located, returned |-> FALSE]
        ELSE IF in.viewStateFlags # ViewStateFlags THEN [st |-> located, returned |-> FALSE]
        ELSE [st |-> drawn, returned |-> Ok(drawn)]

\* a frame that submits its projection layer whatever RenderLayer returned
RenderLayers_AlwaysSubmits(st, in) ==
    IF ~Ok(st) \/ in.shouldRender # XR_TRUE THEN st
    ELSE LET r == RenderLayer(st, in)
         IN  [r.st EXCEPT !.layers =
                 <<[space |-> m_appSpace, viewCount |-> Len(r.st.projectionLayerViews),
                    views |-> r.st.projectionLayerViews]>>]

\* if (frameState.shouldRender == XR_TRUE) { if (RenderLayer(...)) layers.push_back(&layer); }
RenderLayers(st, in) ==
    IF ~Ok(st) \/ in.shouldRender # XR_TRUE THEN st
    ELSE LET r == RenderLayer(st, in)
         IN  IF r.returned
             THEN [r.st EXCEPT !.layers =
                      <<[space |-> m_appSpace, viewCount |-> Len(r.st.projectionLayerViews),
                         views |-> r.st.projectionLayerViews]>>]
             ELSE r.st

\* an end of frame that leaves the display time at zero
EndFrame_NoDisplayTime(st, in) ==
    IF ~Ok(st) THEN st
    ELSE Checked(st, "xrEndFrame",
                 [displayTime |-> 0,
                  environmentBlendMode |-> m_environmentBlendMode,
                  layerCount |-> Len(st.layers), layers |-> st.layers],
                 in.failAt)

\* xrEndFrame with the display time xrWaitFrame predicted, the blend mode
\* and the layers collected
EndFrame(st, in) ==
    IF ~Ok(st) THEN st
    ELSE Checked(st, "xrEndFrame",
                 [displayTime |-> in.predictedDisplayTime,
                  environmentBlendMode |-> m_environmentBlendMode,
                  layerCount |-> Len(st.layers), layers |-> st.layers],
                 in.failAt)

RenderFrameResult(in) ==
    EndFrame(RenderLayers(BeginFrame(RenderFramePrecondition(RenderFrameStart), in.failAt), in),
             in)

\* What the runtime and the plugin can do to one execution: the frame state
\* (shouldRender and the predicted display time, which is a later one in a
\* frame that is skipped, one whose views are not tracked and one that is
\* drawn with every space located), the view state flags and view count of xrLocateViews, the spaces located
\* without both valid flags (notLocated) or with a qualified success
\* (qualified), the image index of the acquires, and the call that fails (for
\* the calls of the loops, in the pass for space or view `failIndex`).  An
\* execution sees only what it gets to: nothing after the call that fails,
\* nothing of the views when the frame is not to be rendered, nothing of the
\* spaces when the views are not tracked or their count is not the expected one.
RenderFrameInputs ==
    LET In(f, k, sr, fl, n, nl, q, ix) ==
            [failAt |-> f, failIndex |-> k, shouldRender |-> sr, predictedDisplayTime |-> 1,
             viewStateFlags |-> fl,
             viewCountOutput |-> n, notLocated |-> nl, qualified |-> q, imageIndex |-> ix]
        Later(in) == [in EXCEPT !.predictedDisplayTime = 2]
        Skipped(f) == In(f, 1, XR_FALSE, ViewStateFlags, 0, {}, {}, 1)
        Slots == 1..Len(LocatedSpaces)
        Few == {x \in SUBSET Slots : Cardinality(x) <= MaxUnlocated}
        Unlocated == UNION {{<<u, x \ u>> : u \in SUBSET x} : x \in Few}
        ViewFailures == {"xrAcquireSwapchainImage", "xrWaitSwapchainImage", "RenderView",
                         "xrReleaseSwapchainImage"}
        ImageIndices == {1} \cup UNION {1..systemImages[k] : k \in DOMAIN systemImages}
    IN  IF ~Ok(RenderFramePrecondition(RenderFrameStart))
        THEN {Skipped("none")}
        ELSE
        {Skipped(f) : f \in {"none", "xrWaitFrame", "xrBeginFrame", "xrEndFrame"}}
        \cup {Later(Skipped("none")), Later(In("none", 1, XR_TRUE, {}, 0, {}, {}, 1))}
        \cup {In("xrLocateViews", 1, XR_TRUE, ViewStateFlags, 0, {}, {}, 1)}
        \cup {In("none", 1, XR_TRUE, fl, 0, {}, {}, 1) :
                fl \in (SUBSET ViewStateFlags) \ {ViewStateFlags}}
        \cup {In("xrEndFrame", 1, XR_TRUE, {"POSITION_VALID"}, 0, {}, {}, 1)}
        \cup {In("none", 1, XR_TRUE, ViewStateFlags, n, {}, {}, 1) :
                n \in {c \in 0..m_views : ~Ok(CheckViewCount(RenderFrameStart, c))}}
        \cup UNION {
               {In("none", 1, XR_TRUE, ViewStateFlags, n, uq[1], uq[2], ix) :
                   uq \in Unlocated, ix \in ImageIndices}
               \cup {In("xrEndFrame", 1, XR_TRUE, ViewStateFlags, n, {}, {}, 1),
                      Later(In("none", 1, XR_TRUE, ViewStateFlags, n, {}, {}, 1))}
               \cup {In("xrLocateSpace", k, XR_TRUE, ViewStateFlags, n, {}, {}, 1) : k \in Slots}
               \cup {In(f, i, XR_TRUE, ViewStateFlags, n, {}, {}, 1) :
                       f \in ViewFailures, i \in 1..n} :
               n \in {c \in 0..m_views : Ok(CheckViewCount(RenderFrameStart, c))}}

RenderFrame ==
    /\ pc = "idle"
    /\ \E in \in RenderFrameInputs :
         \E r \in {RenderFrameResult(in)} :
             /\ m_swapchainImages' = r.swapchainImages
             /\ reported' = Reported("RenderFrame", in)
             /\ calls' = r.calls
             /\ thrown' = r.thrown
    /\ UNCHANGED <<handleVars, configVars, sessionVars, signalVars,
                   m_configViews, m_swapchains, m_views, m_colorSwapchainFormat,
                   pc, eventQueue, eventsQueued, handled, initializeDeviceCalls,
                   actionSetAttached, handsInUse, systemViews, systemImages>>

----------------------------------------------------------------------------
(* Specifications.                                                         *)

DefaultOptions == Options(<<"H", "m", "d">>, <<"S", "t", "e", "r", "e", "o">>, <<"O", "p", "a", "q", "u", "e">>, <<"L", "o", "c", "a", "l">>)

\* The members of a program object constructed with the options o whose
\* start-up got as far as `stage`: "constructed" (nothing called yet),
\* "instance" (CreateInstance returned) or "session" (InitializeSystem and
\* InitializeSession returned as well, every visualized space created).
StartedUpTo(o, stage) ==
    /\ m_options = o
    /\ m_instance = IF stage = "constructed" THEN XR_NULL_HANDLE ELSE InstanceHandle
    /\ m_session = IF stage = "session" THEN SessionHandle ELSE XR_NULL_HANDLE
    /\ m_appSpace = IF stage = "session" THEN AppSpaceHandle ELSE XR_NULL_HANDLE
    /\ m_systemId = IF stage = "session" THEN SystemIdValue ELSE XR_NULL_SYSTEM_ID
    /\ m_formFactor = IF stage = "session" THEN GetXrFormFactor(o.FormFactor)
                      ELSE "HEAD_MOUNTED_DISPLAY"
    /\ m_viewConfigType = IF stage = "session" THEN GetXrViewConfigurationType(o.ViewConfiguration)
                          ELSE "PRIMARY_STEREO"
    /\ m_environmentBlendMode =
            IF stage = "session" THEN GetXrEnvironmentBlendMode(o.EnvironmentBlendMode)
            ELSE "OPAQUE"
    /\ m_configViews = <<>>
    /\ m_swapchains = <<>>
    /\ m_swapchainImages = <<>>
    /\ m_views = 0
    /\ m_colorSwapchainFormat = -1
    /\ m_visualizedSpaces = IF stage = "session" THEN <<1, 2, 3, 4, 5, 6, 7>> ELSE <<>>
    /\ m_input =
         IF stage = "session"
         THEN [actionSet |-> ActionSetHandle, grabAction |-> 1, poseAction |-> 2,
               vibrateAction |-> 3, quitAction |-> 4,
               handSubactionPath |-> <<LEFT, RIGHT>>,
               handSpace |-> <<LeftHandSpace, RightHandSpace>>,
               handScale |-> <<1000, 1000>>,
               handActive |-> <<Indeterminate, Indeterminate>>]
         ELSE [actionSet |-> XR_NULL_HANDLE, grabAction |-> XR_NULL_HANDLE,
               poseAction |-> XR_NULL_HANDLE, vibrateAction |-> XR_NULL_HANDLE,
               quitAction |-> XR_NULL_HANDLE,
               handSubactionPath |-> <<Indeterminate, Indeterminate>>,
               handSpace |-> <<Indeterminate, Indeterminate>>,
               handScale |-> <<1000, 1000>>,
               handActive |-> <<Indeterminate, Indeterminate>>]
    /\ initializeDeviceCalls = IF stage = "session" THEN 1 ELSE 0
    /\ actionSetAttached = (stage = "session")

Quiescent ==
    /\ m_sessionState = "UNKNOWN"
    /\ m_sessionRunning = FALSE
    /\ exitRenderLoop = FALSE
    /\ requestRestart = FALSE
    /\ pc = "idle"
    /\ thrown = "none"
    /\ calls = <<>>
    /\ eventQueue = <<>>
    /\ eventsQueued = 0
    /\ handled = <<>>
    /\ reported = Reported("none", <<>>)

\* a runtime that gives every swapchain one image
OneImageEach == [k \in 1..Len(systemViews) |-> 1]

\* Start-up: a freshly constructed object and the public start-up operations,
\* called in any order and any number of times.
Init ==
    /\ \E o \in OptionsInputs : StartedUpTo(o, "constructed") /\ Quiescent
    /\ handsInUse = FALSE
    /\ systemViews \in SeqsUpTo(ViewConfigurationViews, MaxViews)
    /\ systemImages = OneImageEach

Next ==
    \/ CreateInstance
    \/ InitializeSystem
    \/ InitializeSession
    \/ CreateSwapchains

Spec == Init /\ [][Next]_vars

\* The event pump: the runtime queues events and the program drains them,
\* before a session exists and after start-up has completed.
InitEvents ==
    \E o \in {DefaultOptions, Options(<<"H", "a", "n", "d", "h", "e", "l", "d">>, <<"M", "o", "n", "o">>, <<"A", "l", "p", "h", "a", "B", "l", "e", "n", "d">>, <<"V", "i", "e", "w", "F", "r", "o", "n", "t">>)},
       stage \in {"instance", "session"} :
        /\ StartedUpTo(o, stage) /\ Quiescent /\ handsInUse = FALSE
        /\ systemViews = StereoViews /\ systemImages = OneImageEach

NextEvents ==
    \/ RuntimeQueueEvent
    \/ PollEventsBegin
    \/ PollEventsReadFails
    \/ PollEventsDrained
    \/ PollEventsDispatch

SpecEvents == InitEvents /\ [][NextEvents]_vars

\* The event pump with a thread that keeps running: a PollEvents that was
\* entered goes on with its loop (the while loop has no wait in it).
SpecEventsProgress ==
    SpecEvents /\ WF_vars(PollEventsReadFails \/ PollEventsDrained \/ PollEventsDispatch)

\* the events a runtime sends a program that has one session: no state
\* change names another session or none
OwnedEvents ==
    {ev \in Events : ev.type = "SESSION_STATE_CHANGED" => ev.session = SessionHandle}

\* the most events the runtime has queued when the frame loop is entered
MaxQueued == 1

\* The frame loop: a program whose start-up has completed, before its session
\* has begun or with the session running and focused, with the
\* controllers put down and the events the runtime has queued for its session, calls
\* CreateSwapchains, PollEvents, PollActions and RenderFrame in any order.
InitLoop ==
    /\ StartedUpTo(DefaultOptions, "session")
    /\ \E begun \in BOOLEAN :
         /\ m_sessionState = IF begun THEN "FOCUSED" ELSE "UNKNOWN"
         /\ m_sessionRunning = begun
    /\ exitRenderLoop = FALSE
    /\ requestRestart = FALSE
    /\ pc = "idle"
    /\ thrown = "none"
    /\ calls = <<>>
    /\ eventQueue \in SeqsUpTo(OwnedEvents, MaxQueued)
    /\ eventsQueued = Len(eventQueue)
    /\ handled = <<>>
    /\ reported = Reported("none", <<>>)
    /\ handsInUse = FALSE
    /\ systemViews = StereoViews
    /\ systemImages = OneImageEach

NextLoop ==
    \/ PollEventsBegin
    \/ PollEventsReadFails
    \/ PollEventsDrained
    \/ PollEventsDispatch
    \/ CreateSwapchains
    \/ PollActions
    \/ RenderFrame

SpecLoop == InitLoop /\ [][NextLoop]_vars

\* The public operations of start-up and of the frame loop, called in any
\* order and any number of times on a freshly constructed object, on a
\* stereo system with the controllers put down.
InitAnyOrder ==
    /\ StartedUpTo(DefaultOptions, "constructed")
    /\ Quiescent
    /\ handsInUse = FALSE
    /\ systemViews = StereoViews
    /\ systemImages = OneImageEach

NextAnyOrder ==
    \/ CreateInstance
    \/ InitializeSystem
    \/ InitializeSession
    \/ CreateSwapchains
    \/ PollActions
    \/ RenderFrame

SpecAnyOrder == InitAnyOrder /\ [][NextAnyOrder]_vars

\* Swapchain creation and rendering after a completed start-up, on systems
\* with no view, one view or two, of alternating sizes, and with up to
\* MaxImages images for each swapchain, of a program configured with the
\* default options or with the additive blend mode.
InitSwapchains ==
    /\ \E o \in {DefaultOptions,
                  [DefaultOptions EXCEPT
                      !.EnvironmentBlendMode = <<"A", "d", "d", "i", "t", "i", "v", "e">>]} :
         StartedUpTo(o, "session")
    /\ Quiescent
    /\ handsInUse = FALSE
    /\ systemViews \in {[i \in 1..k |-> StereoViews[2 - (i % 2)]] : k \in 0..MaxViews}
    /\ systemImages \in [1..Len(systemViews) -> 1..MaxImages]

NextSwapchains ==
    \/ CreateSwapchains
    \/ RenderFrame

SpecSwapchains == InitSwapchains /\ [][NextSwapchains]_vars

\* Input polling after a completed start-up, with the controllers held.
InitActions ==
    /\ StartedUpTo(DefaultOptions, "session")
    /\ Quiescent
    /\ handsInUse = TRUE
    /\ systemViews = StereoViews
    /\ systemImages = OneImageEach

NextActions == PollActions

SpecActions == InitActions /\ [][NextActions]_vars

----------------------------------------------------------------------------
(* The destructor ~OpenXrProgram.                                          *)

\* The values the destructor can read from m_input.handSpace.  A hand space
\* that was never assigned may hold anything: no handle, the handle of a
\* space of this session, or a value that is no handle at all.
HandSpaceReads ==
    LET NotAHandle == 11
        StaleSpaceValues == {XR_NULL_HANDLE, LeftHandSpace, NotAHandle}
    IN  {hs \in [{LEFT, RIGHT} -> StaleSpaceValues \cup {RightHandSpace}] :
            \A hand \in {LEFT, RIGHT} :
                IF m_input.actionSet = XR_NULL_HANDLE THEN hs[hand] = XR_NULL_HANDLE
                ELSE IF m_input.handSpace[hand] = Indeterminate
                THEN hs[hand] \in StaleSpaceValues
                ELSE hs[hand] = m_input.handSpace[hand]}

\* the calls of the destructor, in the order of its body; the results of
\* the destroy functions are not looked at
DestructorCalls(handSpace) ==
    LET \* if (m_input.actionSet != XR_NULL_HANDLE)
        input == IF m_input.actionSet # XR_NULL_HANDLE
                 THEN <<Call("xrDestroySpace", handSpace[LEFT]),
                        Call("xrDestroySpace", handSpace[RIGHT]),
                        Call("xrDestroyActionSet", m_input.actionSet)>>
                 ELSE <<>>
        \* for (Swapchain swapchain : m_swapchains)
        swapchains == [i \in 1..Len(m_swapchains) |->
                          Call("xrDestroySwapchain", m_swapchains[i].handle)]
        \* for (XrSpace visualizedSpace : m_visualizedSpaces)
        visualizedSpaces == [i \in 1..Len(m_visualizedSpaces) |->
                                Call("xrDestroySpace", m_visualizedSpaces[i])]
        \* if (handle != XR_NULL_HANDLE)
        IfSet(fn, handle) == IF handle # XR_NULL_HANDLE THEN <<Call(fn, handle)>> ELSE <<>>
    IN  input \o swapchains \o visualizedSpaces
            \o IfSet("xrDestroySpace", m_appSpace)
            \o IfSet("xrDestroySession", m_session)
            \o IfSet("xrDestroyInstance", m_instance)

\* the object is destroyed between two operations; no member is written
Destructor ==
    /\ pc = "idle"
    /\ \E handSpace \in HandSpaceReads :
         /\ calls' = DestructorCalls(handSpace)
         /\ reported' = Reported("~OpenXrProgram", [handSpace |-> handSpace])
    /\ pc' = "destroyed"
    /\ thrown' = "none"
    /\ UNCHANGED <<handleVars, configVars, swapchainVars, sessionVars, signalVars,
                   eventQueue, eventsQueued, handled, initializeDeviceCalls,
                   actionSetAttached, handsInUse, systemViews, systemImages>>

\* The public operations called in any order on a freshly constructed
\* object, which is destroyed at some point.
NextLifetime ==
    \/ NextAnyOrder
    \/ Destructor

SpecLifetime == InitAnyOrder /\ [][NextLifetime]_vars

----------------------------------------------------------------------------
(* Properties of the frame loop (checked under SpecLoop).                  *)

\* C7: the stored session state and the running flag change only in a step
\* that handles a session-state-changed event: every other event, PollActions,
\* RenderFrame and CreateSwapchains leave both as they were; and the running
\* flag changes only to true, on READY, or to false, on STOPPING, of an event
\* the guard does not discard.
C7_SessionStateWrittenOnlyByStateChanges ==
    [][/\ (m_sessionState' # m_sessionState \/ m_sessionRunning' # m_sessionRunning)
            => (pc = "PollEvents"
                /\ eventQueue # <<>>
                /\ Head(eventQueue).type = "SESSION_STATE_CHANGED"
                /\ eventQueue' = Tail(eventQueue))
       /\ m_sessionRunning' # m_sessionRunning
            => /\ ~IsUnknownSession(Head(eventQueue))
               /\ \/ Head(eventQueue).state = "READY" /\ m_sessionRunning'
                  \/ Head(eventQueue).state = "STOPPING" /\ ~m_sessionRunning']_vars

\* STOPPING has ended a running session, and then swapchains were created,
\* actions polled and a frame rendered to the end, the session state as the
\* event left it
C7_Witness ==
    /\ pc = "idle"
    /\ handled # <<>>
    /\ m_sessionState = "STOPPING"
    /\ ~m_sessionRunning
    /\ Len(m_swapchains) = 2
    /\ m_input.handActive = <<XR_FALSE, XR_FALSE>>
    /\ CallsTo(calls, "xrEndFrame") # <<>>
    /\ thrown = "none"

----------------------------------------------------------------------------
(* Properties of start-up (checked under Spec).                            *)

\* C8: InitializeSystem called (with its preconditions met) when the form
\* factor, the view configuration or the blend mode is outside its
\* enumeration, and InitializeSession called (with its preconditions met)
\* when the app space is outside its enumeration, fail, and when they fail
\* with the configuration error every handle (instance, system id, session,
\* app space, visualized spaces, action set, actions and hand spaces) is as
\* it was before the call.
C8_RejectedConfigurationKeepsHandles ==
    [][(\/ /\ InitializeSystem
           /\ Ok(InitializeSystemPrecondition(InitializeSystemStart))
           /\ \/ GetXrFormFactor(m_options.FormFactor) = InvalidArgument
              \/ GetXrViewConfigurationType(m_options.ViewConfiguration) = InvalidArgument
              \/ GetXrEnvironmentBlendMode(m_options.EnvironmentBlendMode) = InvalidArgument
        \/ /\ InitializeSession
           /\ Ok(InitializeSessionPrecondition(InitializeSessionStart))
           /\ GetXrReferenceSpaceCreateInfo(m_options.AppSpace).referenceSpaceType
                  = InvalidArgument)
            => /\ thrown' # "none"
               /\ thrown' = InvalidArgument => UNCHANGED handleVars]_vars

CreateSessionCalls(cs) == CallsTo(cs, "xrCreateSession")

\* C9: whenever the last operation asked the runtime to create a session, the
\* system id was resolved and the graphics plugin's InitializeDevice had been
\* called; and InitializeDevice is never called twice.
C9_SessionCreatedOnlyAfterInitializeSystem ==
    /\ CreateSessionCalls(calls) # <<>>
            => (m_systemId # XR_NULL_SYSTEM_ID /\ initializeDeviceCalls >= 1)
    /\ initializeDeviceCalls <= 1

\* the runtime functions that create a swapchain, a reference space, an action
\* space, an action set or an action
CreationFunctions ==
    {"xrCreateSwapchain", "xrCreateReferenceSpace", "xrCreateActionSet",
     "xrCreateAction/grab_object", "xrCreateAction/hand_pose",
     "xrCreateAction/vibrate_hand", "xrCreateAction/quit_session",
     "xrCreateActionSpace/left", "xrCreateActionSpace/right"}

\* C10: every request of the last operation to create a swapchain, a
\* reference space, an action space, an action set or an action was made with
\* a session: the session handle is non-null, and if this operation created
\* the session, it did so before the request.
C10_NothingCreatedWithoutSession ==
    \A i \in DOMAIN calls :
        calls[i].fn \in CreationFunctions
            => /\ m_session # XR_NULL_HANDLE
               /\ \A j \in DOMAIN calls : calls[j].fn = "xrCreateSession" => j < i

\* CreateSwapchains has created the swapchains of two views
C10_Witness ==
    /\ m_session # XR_NULL_HANDLE
    /\ Len(CallsTo(calls, "xrCreateSwapchain")) = 2
    /\ Len(m_swapchains) = 2
    /\ thrown = "none"

----------------------------------------------------------------------------
(* Properties of the event pump (checked under SpecEvents).                *)

\* this step is a pass of the drain loop that reads the head of the queue
DispatchStep ==
    /\ pc = "PollEvents"
    /\ eventQueue # <<>>
    /\ eventQueue' = Tail(eventQueue)

\* this step handles a session-state-changed event
StateChangedStep ==
    DispatchStep /\ Head(eventQueue).type = "SESSION_STATE_CHANGED"

\* this step handles a session-state-changed event that names the session
\* this program owns
OwnedStateChangedStep ==
    /\ StateChangedStep
    /\ m_session # XR_NULL_HANDLE
    /\ Head(eventQueue).session = m_session

BeginSessionCalls(cs) == CallsTo(cs, "xrBeginSession")
EndSessionCalls(cs) == CallsTo(cs, "xrEndSession")
NoSessionCalls(cs) == BeginSessionCalls(cs) = <<>> /\ EndSessionCalls(cs) = <<>>

\* C1: a session-state-changed event whose session handle is non-null and is
\* not the owned session is discarded without any effect: the stored session
\* state, the running flag and both signals keep their values and neither
\* xrBeginSession nor xrEndSession is called.
C1_UnknownSessionEventChangesNothing ==
    [][(StateChangedStep /\ IsUnknownSession(Head(eventQueue)))
            => /\ m_sessionState' = m_sessionState
               /\ m_sessionRunning' = m_sessionRunning
               /\ exitRenderLoop' = exitRenderLoop
               /\ requestRestart' = requestRestart
               /\ NoSessionCalls(calls')]_vars

\* C2: for an event of the owned session, READY calls xrBeginSession exactly
\* once, with the configured view configuration type, and the running flag is
\* true when the call succeeds; STOPPING calls xrEndSession exactly once and
\* the running flag is false; every other state leaves the running flag as it
\* was (so Idle, Ready, Focused, Stopping, Exiting give false, true, true,
\* false, false).
C2_ReadyBeginsAndStoppingEnds ==
    [][OwnedStateChangedStep
            => LET st == Head(eventQueue).state
               IN  /\ st = "READY" =>
                        /\ Len(BeginSessionCalls(calls')) = 1
                        /\ BeginSessionCalls(calls')[1].arg = m_viewConfigType
                        /\ EndSessionCalls(calls') = <<>>
                        /\ thrown' = "none" => m_sessionRunning'
                   /\ st = "STOPPING" =>
                        /\ Len(EndSessionCalls(calls')) = 1
                        /\ BeginSessionCalls(calls') = <<>>
                        /\ ~m_sessionRunning'
                   /\ st \notin {"READY", "STOPPING"} =>
                        /\ m_sessionRunning' = m_sessionRunning
                        /\ NoSessionCalls(calls')]_vars

\* a READY event of the owned session has been handled and the session begun
C2_Witness ==
    /\ pc = "PollEvents"
    /\ m_session # XR_NULL_HANDLE
    /\ m_sessionState = "READY"
    /\ m_sessionRunning
    /\ Len(BeginSessionCalls(calls)) = 1
    /\ m_viewConfigType = "PRIMARY_MONO"
    /\ thrown = "none"

\* ev is a state-changed event to ns that names the session this program owns
OwnedEvent(ev, ns) ==
    /\ ev.type = "SESSION_STATE_CHANGED"
    /\ ev.state = ns
    /\ m_session # XR_NULL_HANDLE
    /\ ev.session = m_session

\* the current call has handled LOSS_PENDING for the owned session
HandledOwnedLossPending ==
    \E i \in DOMAIN handled : OwnedEvent(handled[i], "LOSS_PENDING")

\* C3 as claimed: a call of PollEvents that handled LOSS_PENDING for the owned
\* session returns with exitRenderLoop and requestRestart both true, whatever
\* other events it read before or after.
C3_LossPendingAlwaysRequestsRestart ==
    (pc = "idle" /\ thrown = "none" /\ HandledOwnedLossPending)
        => (exitRenderLoop /\ requestRestart)

\* ev is an event whose handling writes requestRestart = TRUE
SetsRestart(ev) ==
    \/ ev.type = "INSTANCE_LOSS_PENDING"
    \/ ev.type = "SESSION_STATE_CHANGED" /\ ev.state = "LOSS_PENDING"
                                         /\ ~IsUnknownSession(ev)

\* ev is an event whose handling writes requestRestart = FALSE
ClearsRestart(ev) ==
    /\ ev.type = "SESSION_STATE_CHANGED"
    /\ ev.state = "EXITING"
    /\ ~IsUnknownSession(ev)

\* the call handled an EXITING event (owned session or null handle) and no
\* LOSS_PENDING or instance-loss event after it
ExitingHandledLast ==
    \E j \in DOMAIN handled :
        /\ ClearsRestart(handled[j])
        /\ \A k \in DOMAIN handled : k > j => ~SetsRestart(handled[k])

\* C3 as amended: once a call of PollEvents has handled LOSS_PENDING for the
\* owned session, exitRenderLoop is true to the end of the call, and
\* requestRestart is true unless an EXITING event (owned session or null
\* handle) was handled later with no further LOSS_PENDING or instance-loss
\* event behind it, in which case requestRestart is false.
C3_LossPendingRequestsRestartUntilExiting ==
    HandledOwnedLossPending
        => /\ exitRenderLoop
           /\ requestRestart <=> ~ExitingHandledLast

\* the call has returned after LOSS_PENDING of the owned session and then
\* another state change, and both signals are set
C3_Witness ==
    /\ pc = "idle"
    /\ thrown = "none"
    /\ Len(handled) = 2
    /\ OwnedEvent(handled[1], "LOSS_PENDING")
    /\ handled[2].type = "SESSION_STATE_CHANGED"
    /\ m_sessionState = handled[2].state
    /\ m_sessionState # "LOSS_PENDING"
    /\ exitRenderLoop /\ requestRestart

\* C4: right after EXITING is handled for the owned session exitRenderLoop is
\* true and requestRestart is false, the running flag is as before, and
\* neither xrBeginSession nor xrEndSession was called.
C4_ExitingSignalsExitWithoutRestart ==
    [][(OwnedStateChangedStep /\ Head(eventQueue).state = "EXITING")
            => /\ exitRenderLoop'
               /\ ~requestRestart'
               /\ m_sessionRunning' = m_sessionRunning
               /\ NoSessionCalls(calls')
               /\ thrown' = "none"]_vars

\* EXITING has been handled while the session was running
C4_Witness ==
    /\ pc = "PollEvents"
    /\ m_session # XR_NULL_HANDLE
    /\ m_sessionState = "EXITING"
    /\ m_sessionRunning
    /\ exitRenderLoop /\ ~requestRestart

PassiveStates == {"FOCUSED", "SYNCHRONIZED", "VISIBLE", "IDLE", "UNKNOWN"}

\* C5: an event whose new state is FOCUSED, SYNCHRONIZED, VISIBLE, IDLE or
\* UNKNOWN is stored as the session state and changes nothing else: running
\* flag and signals keep their values, no session call is made, nothing throws.
C5_PassiveStatesOnlyStoreTheState ==
    [][(StateChangedStep /\ Head(eventQueue).state \in PassiveStates)
            => /\ m_sessionState' = Head(eventQueue).state
               /\ m_sessionRunning' = m_sessionRunning
               /\ exitRenderLoop' = exitRenderLoop
               /\ requestRestart' = requestRestart
               /\ NoSessionCalls(calls')
               /\ thrown' = "none"
               /\ UNCHANGED <<handleVars, configVars, swapchainVars>>]_vars

\* VISIBLE has been handled in a drain in which the session had begun
C5_Witness ==
    /\ pc = "PollEvents"
    /\ m_sessionState = "VISIBLE"
    /\ m_sessionRunning
    /\ calls # <<>>

\* C6: reading an instance-loss-pending event ends the call at once with both
\* signals set; the events behind it stay in the queue, and the session state
\* and running flag are untouched and no session call is made.
C6_InstanceLossReturnsAtOnce ==
    [][(DispatchStep /\ Head(eventQueue).type = "INSTANCE_LOSS_PENDING")
            => /\ exitRenderLoop' /\ requestRestart'
               /\ pc' = "idle"
               /\ thrown' = "none"
               /\ eventQueue' = Tail(eventQueue)
               /\ UNCHANGED sessionVars
               /\ NoSessionCalls(calls')]_vars

\* the call has returned on an instance-loss-pending event, the only event
\* read so far, and another event is still queued
C6_Witness ==
    /\ pc = "idle"
    /\ thrown = "none"
    /\ exitRenderLoop /\ requestRestart
    /\ m_sessionState = "UNKNOWN"
    /\ eventQueue # <<>>
    /\ eventsQueued = Len(eventQueue) + 1

----------------------------------------------------------------------------
(* Properties of the operations called in any order (checked under        *)
(* SpecAnyOrder).                                                          *)

\* C11: a call of CreateSwapchains, PollActions or RenderFrame made while no
\* session exists ends in a failed precondition check, issues no call to the
\* runtime or the plugin and leaves every member as it was.
C11_SessionDependentOperationsCheckSession ==
    [][(/\ m_session = XR_NULL_HANDLE
        /\ reported'.op \in {"CreateSwapchains", "PollActions", "RenderFrame"})
          => /\ thrown' = "logic_error"
             /\ calls' = <<>>
             /\ UNCHANGED <<handleVars, configVars, swapchainVars, sessionVars,
                            signalVars>>]_vars


\* C12: a RenderFrame that got past its precondition check, and so issued
\* xrWaitFrame, ran with the app space created.
C12_RenderFrameRunsWithAppSpace ==
    (reported.op = "RenderFrame" /\ CallsTo(calls, "xrWaitFrame") # <<>>)
        => m_appSpace # XR_NULL_HANDLE


----------------------------------------------------------------------------
(* Properties of CreateSwapchains (checked under Spec, where the runtime   *)
(* enumerates no view, one view or two).                                   *)

\* C13: a call of CreateSwapchains made after a CreateSwapchains that
\* returned (here: right after it, the case that follows from the claim for
\* every history) is rejected by a precondition check, issues no call and
\* creates no swapchain, whatever the number of views of the system.
C13_SecondCreateSwapchainsRejected ==
    [][(/\ reported.op = "CreateSwapchains" /\ thrown = "none"
        /\ reported'.op = "CreateSwapchains")
          => /\ thrown' = "logic_error"
             /\ calls' = <<>>
             /\ m_swapchains' = m_swapchains]_vars


----------------------------------------------------------------------------
(* Properties of swapchain creation (checked under SpecSwapchains).        *)

\* C14: when CreateSwapchains has returned there is one swapchain for each
\* view the runtime enumerated, the i-th with the recommended width and height
\* of the i-th view, and the image map has exactly the handles of the
\* swapchains as its keys, each with as many images as the runtime reported
\* for that swapchain.
C14_OneSwapchainPerViewWithItsImages ==
    (reported.op = "CreateSwapchains" /\ thrown = "none")
        => LET in == reported.in
           IN  /\ Len(m_swapchains) = Len(in.views)
               /\ \A i \in DOMAIN m_swapchains :
                    /\ m_swapchains[i].width = in.views[i].recommendedImageRectWidth
                    /\ m_swapchains[i].height = in.views[i].recommendedImageRectHeight
                    /\ Len(m_swapchainImages[m_swapchains[i].handle]) = in.imageCounts[i]
               /\ DOMAIN m_swapchainImages = {m_swapchains[i].handle : i \in DOMAIN m_swapchains}
               /\ \A i, j \in DOMAIN m_swapchains :
                    m_swapchains[i].handle = m_swapchains[j].handle => i = j

\* CreateSwapchains has returned on a stereo system whose two views differ in
\* size and whose two swapchains differ in their number of images
C14_Witness ==
    /\ reported.op = "CreateSwapchains" /\ thrown = "none"
    /\ Len(m_swapchains) = 2
    /\ m_swapchains[1].width # m_swapchains[2].width
    /\ Len(m_swapchainImages[m_swapchains[1].handle]) = 2
    /\ Len(m_swapchainImages[m_swapchains[2].handle]) = 1
    /\ CallsTo(calls, "xrCreateSwapchain") # <<>>


----------------------------------------------------------------------------
(* Properties of RenderFrame (checked under SpecSwapchains).               *)

\* C15: a RenderFrame that returns has issued xrWaitFrame first, xrBeginFrame
\* second and xrEndFrame last, each once; and in every RenderFrame the view
\* and space queries, the swapchain acquire, wait and release and the plugin's
\* RenderView come after xrBeginFrame and before any xrEndFrame.
C15_WaitBeginEndInOrder ==
    reported.op = "RenderFrame"
        => LET n == Len(calls)
               Once(fn) == Len(CallsTo(calls, fn)) = 1
               FrameWork == {"xrLocateViews", "xrLocateSpace", "xrAcquireSwapchainImage",
                             "xrWaitSwapchainImage", "RenderView", "xrReleaseSwapchainImage"}
           IN  /\ thrown = "none"
                    => /\ n >= 3
                       /\ calls[1].fn = "xrWaitFrame" /\ Once("xrWaitFrame")
                       /\ calls[2].fn = "xrBeginFrame" /\ Once("xrBeginFrame")
                       /\ calls[n].fn = "xrEndFrame" /\ Once("xrEndFrame")
               /\ \A k \in 1..n :
                    calls[k].fn \in FrameWork
                        => /\ \E j \in 1..(k - 1) : calls[j].fn = "xrBeginFrame"
                           /\ \A j \in 1..(k - 1) : calls[j].fn # "xrEndFrame"

\* a frame of two views has been rendered to the end
C15_Witness ==
    /\ reported.op = "RenderFrame" /\ thrown = "none"
    /\ Len(CallsTo(calls, "xrLocateSpace")) = 9
    /\ Len(CallsTo(calls, "RenderView")) = 2
    /\ calls[Len(calls)].fn = "xrEndFrame"
    /\ calls[Len(calls)].arg.layerCount = 1


\* C16: a RenderFrame whose frame is to be rendered and whose xrLocateViews
\* succeeds with the position-valid or the orientation-valid flag unset issues
\* no space query, no acquire and no RenderView, and still calls xrEndFrame,
\* with no layer; unless the runtime fails that xrEndFrame, it returns.
C16_UntrackedViewsSubmitNoLayer ==
    (/\ reported.op = "RenderFrame"
     /\ CallsTo(calls, "xrLocateViews") # <<>>
     /\ reported.in.failAt # "xrLocateViews"
     /\ reported.in.viewStateFlags # ViewStateFlags)
        => /\ CallsTo(calls, "xrLocateSpace") = <<>>
           /\ CallsTo(calls, "xrAcquireSwapchainImage") = <<>>
           /\ CallsTo(calls, "RenderView") = <<>>
           /\ calls[Len(calls)].fn = "xrEndFrame"
           /\ calls[Len(calls)].arg.layerCount = 0
           /\ calls[Len(calls)].arg.layers = <<>>
           /\ thrown = (IF reported.in.failAt = "xrEndFrame" THEN "xr_error" ELSE "none")

\* a frame whose views had a valid position and no valid orientation has
\* ended, on a system whose two swapchains exist
C16_Witness ==
    /\ reported.op = "RenderFrame" /\ thrown = "none"
    /\ reported.in.shouldRender = XR_TRUE
    /\ reported.in.viewStateFlags = {"POSITION_VALID"}
    /\ Len(m_swapchains) = 2
    /\ CallsTo(calls, "xrLocateViews") # <<>>
    /\ CallsTo(calls, "xrEndFrame") # <<>>


\* the swapchain calls of the last operation, in order
SwapchainCycleCalls ==
    SelectSeq(calls, LAMBDA c : c.fn \in {"xrAcquireSwapchainImage", "xrWaitSwapchainImage",
                                          "RenderView", "xrReleaseSwapchainImage"})

\* the last operation was a RenderFrame whose frame was to be rendered, whose
\* views were located with both valid flags and whose view count N was the
\* expected one
TrackedFrame ==
    /\ reported.op = "RenderFrame"
    /\ CallsTo(calls, "xrLocateViews") # <<>>
    /\ reported.in.failAt # "xrLocateViews"
    /\ reported.in.viewStateFlags = ViewStateFlags
    /\ reported.in.viewCountOutput = m_views
    /\ reported.in.viewCountOutput = Len(m_configViews)
    /\ reported.in.viewCountOutput = Len(m_swapchains)

\* C17: in a frame that is to be rendered, with tracked views and N views,
\* RenderFrame issues N acquires and N releases, as one acquire, wait,
\* RenderView, release cycle for each swapchain in the order of the views, and
\* does so too when the runtime fails the location query of a visualized
\* space or of a hand space.
C17_OneCyclePerViewDespiteLocationFailure ==
    (TrackedFrame /\ reported.in.failAt \in {"none", "xrLocateSpace"})
        => LET n == reported.in.viewCountOutput
               cycle == SwapchainCycleCalls
           IN  /\ Len(CallsTo(calls, "xrAcquireSwapchainImage")) = n
               /\ Len(CallsTo(calls, "xrReleaseSwapchainImage")) = n
               /\ Len(cycle) = 4 * n
               /\ \A i \in 1..n :
                    /\ cycle[4 * i - 3] = Call("xrAcquireSwapchainImage", m_swapchains[i].handle)
                    /\ cycle[4 * i - 2] = Call("xrWaitSwapchainImage", m_swapchains[i].handle)
                    /\ cycle[4 * i - 1].fn = "RenderView"
                    /\ cycle[4 * i] = Call("xrReleaseSwapchainImage", m_swapchains[i].handle)


\* C18: when a RenderFrame has ended, returning or failing, every swapchain
\* image it acquired has been released: each xrAcquireSwapchainImage that
\* succeeded is followed by an xrReleaseSwapchainImage of the same swapchain,
\* also when the wait for the image or the plugin's RenderView failed.
C18_AcquiredImagesAreReleased ==
    reported.op = "RenderFrame"
        => \A k \in 1..Len(calls) :
              (/\ calls[k].fn = "xrAcquireSwapchainImage"
               /\ ~(/\ k = Len(calls)
                    /\ thrown # "none"
                    /\ reported.in.failAt = "xrAcquireSwapchainImage"))
                => \E j \in (k + 1)..Len(calls) :
                      calls[j] = Call("xrReleaseSwapchainImage", calls[k].arg)


----------------------------------------------------------------------------
(* Properties of InitializeSession (checked under Spec).                   *)

\* C19: an InitializeSession that gets to CreateVisualizedSpaces asks the
\* runtime for each of the seven visualized spaces, in the order of their
\* names, whichever of them the runtime refuses; it keeps exactly the spaces
\* that were created; and a refusal does not make it fail: it goes on to the
\* app space and returns unless that last step fails.
C19_AllVisualizedSpacesAttempted ==
    (/\ reported.op = "InitializeSession"
     /\ CallsTo(calls, "xrAttachSessionActionSets") # <<>>
     /\ reported.in.failAt \in {"none", "xrCreateReferenceSpace/app"})
        => LET created == CallsTo(calls, "xrCreateReferenceSpace")
               names == 1..Len(VisualizedSpaceNames)
               appSpaceNamed == GetXrReferenceSpaceCreateInfo(m_options.AppSpace).referenceSpaceType
                                    # InvalidArgument
           IN  /\ Len(VisualizedSpaceNames) = 7
               /\ Len(created) = 7 + (IF appSpaceNamed THEN 1 ELSE 0)
               /\ \A i \in names : created[i].arg = VisualizedSpaceInfos[i]
               /\ Len(m_visualizedSpaces) = 7 - Cardinality(reported.in.refused)
               /\ {m_visualizedSpaces[k] : k \in DOMAIN m_visualizedSpaces}
                    = names \ reported.in.refused
               /\ (reported.in.failAt = "none" /\ appSpaceNamed)
                    => (thrown = "none" /\ m_appSpace = AppSpaceHandle)

\* the runtime has refused the third visualized space and InitializeSession
\* has returned with the other six and the app space
C19_Witness ==
    /\ reported.op = "InitializeSession" /\ thrown = "none"
    /\ reported.in.refused = {3}
    /\ m_visualizedSpaces = <<1, 2, 4, 5, 6, 7>>
    /\ Len(CallsTo(calls, "xrCreateReferenceSpace")) = 8
    /\ m_appSpace = AppSpaceHandle


----------------------------------------------------------------------------
(* Properties of PollActions (checked under SpecActions).                  *)

\* C20: a PollActions that has read the quit action calls
\* xrRequestExitSession, once, exactly when the state it read is active,
\* changed since the last sync and true; so of two calls in a row that find
\* the button held, the second having been told that nothing changed, the
\* second does not ask for the exit again.
C20_ExitRequestedOnQuitEdgeOnly ==
    [][reported'.op = "PollActions"
         => LET quit == reported'.in.quit
                quitRead == /\ CallsTo(calls', "xrGetActionStateBoolean") # <<>>
                            /\ reported'.in.failAt # "xrGetActionStateBoolean"
                requests == Len(CallsTo(calls', "xrRequestExitSession"))
            IN  /\ quitRead
                    => requests = (IF /\ quit.isActive = XR_TRUE
                                      /\ quit.changedSinceLastSync = XR_TRUE
                                      /\ quit.currentState = XR_TRUE
                                   THEN 1 ELSE 0)
                /\ ~quitRead => requests = 0
                /\ (/\ reported.op = "PollActions"
                    /\ reported.in.quit.currentState = XR_TRUE
                    /\ quit.currentState = XR_TRUE
                    /\ quit.changedSinceLastSync = XR_FALSE)
                    => requests = 0]_vars

\* the quit button was pressed and PollActions has asked the runtime to end
\* the session
C20_Witness ==
    /\ reported.op = "PollActions" /\ thrown = "none"
    /\ reported.in.quit = [isActive |-> XR_TRUE, changedSinceLastSync |-> XR_TRUE,
                           currentState |-> XR_TRUE]
    /\ calls[Len(calls)].fn = "xrRequestExitSession"
    /\ m_input.handActive = <<XR_TRUE, XR_TRUE>>


\* the grab state of `hand` was read by the PollActions reported in `rep`,
\* whose calls are `cs`
GrabRead(rep, cs, hand) ==
    /\ \E i \in 1..Len(cs) : cs[i] = Call("xrGetActionStateFloat", hand)
    /\ ~(rep.in.failAt = "xrGetActionStateFloat" /\ rep.in.failHand = hand)

\* C21: in each PollActions, for each hand whose grab state was read, one
\* haptic pulse is applied for that hand exactly when its grab action is
\* active with a value strictly above 0.9; a value of exactly 0.9, and any
\* value of an inactive action, gives no pulse; a hand whose grab state was
\* not read gets no pulse.
C21_HapticPulseIffSqueezedPast90Percent ==
    [][reported'.op = "PollActions"
         => \A hand \in {LEFT, RIGHT} :
              LET grab == reported'.in.grab[hand]
                  pulses == Len(SelectSeq(calls',
                                LAMBDA c : c = Call("xrApplyHapticFeedback", hand)))
              IN  IF GrabRead(reported', calls', hand)
                  THEN pulses = (IF grab.isActive = XR_TRUE /\ grab.currentState > 900
                                 THEN 1 ELSE 0)
                  ELSE pulses = 0]_vars

\* the left hand is squeezed fully and the right one to exactly 0.9: only
\* the left hand has vibrated
C21_Witness ==
    /\ reported.op = "PollActions" /\ thrown = "none"
    /\ reported.in.grab[LEFT] = [isActive |-> XR_TRUE, currentState |-> 1000]
    /\ reported.in.grab[RIGHT] = [isActive |-> XR_TRUE, currentState |-> 900]
    /\ CallsTo(calls, "xrApplyHapticFeedback") = <<Call("xrApplyHapticFeedback", LEFT)>>

\* C22: after a PollActions that read an active grab action of a hand with a
\* value g between 0 and 1, the scale stored for the hand is 1.0 - 0.5 * g
\* (in thousandths): 1.0 at g = 0, 0.5 at g = 1, between 0.5 and 1.0, and of
\* two hands read in one call the one squeezed more has the smaller scale.
C22_HandScaleFallsFromOneToHalf ==
    reported.op = "PollActions"
        => LET Active(hand) == /\ GrabRead(reported, calls, hand)
                               /\ reported.in.grab[hand].isActive = XR_TRUE
               g(hand) == reported.in.grab[hand].currentState
           IN  /\ \A hand \in {LEFT, RIGHT} :
                    Active(hand)
                        => /\ 2 * m_input.handScale[hand] = 2000 - g(hand)
                           /\ g(hand) = 0 => m_input.handScale[hand] = 1000
                           /\ g(hand) = 1000 => m_input.handScale[hand] = 500
                           /\ m_input.handScale[hand] \in 500..1000
               /\ (Active(LEFT) /\ Active(RIGHT) /\ g(LEFT) < g(RIGHT))
                    => m_input.handScale[LEFT] > m_input.handScale[RIGHT]

\* the left hand is open and the right one fully squeezed
C22_Witness ==
    /\ reported.op = "PollActions" /\ thrown = "none"
    /\ reported.in.grab[LEFT] = [isActive |-> XR_TRUE, currentState |-> 0]
    /\ reported.in.grab[RIGHT] = [isActive |-> XR_TRUE, currentState |-> 1000]
    /\ m_input.handScale = <<1000, 500>>


----------------------------------------------------------------------------
(* Properties of the action set in any order of the operations (checked   *)
(* under SpecAnyOrder).                                                    *)

\* C23: whatever the order of the public operations, a call that attaches
\* the action set is made only while it is not attached, so that it is
\* attached at most once, and xrSyncActions is issued only after the
\* attachment has succeeded.
C23_AttachedOnceBeforeAnySync ==
    [][/\ CallsTo(calls', "xrAttachSessionActionSets") # <<>>
            => /\ ~actionSetAttached
               /\ Len(CallsTo(calls', "xrAttachSessionActionSets")) = 1
       /\ CallsTo(calls', "xrSyncActions") # <<>> => actionSetAttached]_vars


----------------------------------------------------------------------------
(* Properties of the destructor (checked under SpecLifetime).              *)

\* the positions of the destructor's call `c`
DestroyedAt(c) == {i \in 1..Len(calls) : calls[i] = c}

\* the resources of the session the object holds
SessionResources ==
    {Call("xrDestroySpace", m_input.handSpace[hand]) :
        hand \in {h \in {LEFT, RIGHT} : m_input.handSpace[h] # Indeterminate}}
    \cup {Call("xrDestroyActionSet", m_input.actionSet) : x \in {1} \cap
            {IF m_input.actionSet # XR_NULL_HANDLE THEN 1 ELSE 0}}
    \cup {Call("xrDestroySwapchain", m_swapchains[i].handle) : i \in 1..Len(m_swapchains)}
    \cup {Call("xrDestroySpace", m_visualizedSpaces[i]) : i \in 1..Len(m_visualizedSpaces)}
    \cup {Call("xrDestroySpace", m_appSpace) : x \in {1} \cap
            {IF m_appSpace # XR_NULL_HANDLE THEN 1 ELSE 0}}

\* C24: once the object is destroyed, every resource of the session (hand
\* spaces, action set, swapchains, visualized spaces, app space) has been
\* destroyed before the session, the session before the instance, and no
\* handle has been destroyed more than once.
C24_ResourcesDestroyedOnceInOwnershipOrder ==
    pc = "destroyed"
        => LET session == DestroyedAt(Call("xrDestroySession", m_session))
               instance == DestroyedAt(Call("xrDestroyInstance", m_instance))
           IN  /\ m_session # XR_NULL_HANDLE
                    => /\ session # {}
                       /\ \A r \in SessionResources :
                            /\ DestroyedAt(r) # {}
                            /\ \A i \in DestroyedAt(r), j \in session : i < j
               /\ m_instance # XR_NULL_HANDLE
                    => /\ instance # {}
                       /\ \A i \in session, j \in instance : i < j
               /\ \A i, j \in 1..Len(calls) : calls[i] = calls[j] => i = j


----------------------------------------------------------------------------
(* Properties of the drain loop (checked under SpecEventsProgress).        *)

\* C25: a PollEvents that was entered comes to its end, whatever the runtime
\* has queued; while it runs, each pass takes the event at the head of the
\* runtime's queue and dispatches it, so that the events dispatched followed
\* by the events still queued are always the events queued, in their order;
\* and when it returns without having read an instance-loss-pending event,
\* the runtime's queue is empty.
C25_PollEventsDrainsTheQueueAndReturns ==
    /\ (pc = "PollEvents") ~> (pc = "idle")
    /\ [][pc = "PollEvents"
            => /\ \/ handled' \o eventQueue' = handled \o eventQueue
                  \/ /\ handled' = handled
                     /\ \E ev \in Events : eventQueue' = Append(eventQueue, ev)
               /\ (/\ pc' = "idle"
                   /\ thrown' = "none"
                   /\ \A i \in 1..Len(handled') : handled'[i].type # "INSTANCE_LOSS_PENDING")
                    => eventQueue' = <<>>]_vars

\* PollEvents has returned after two events, neither of them an instance
\* loss, and nothing is left in the queue
C25_Witness ==
    /\ pc = "idle" /\ thrown = "none"
    /\ reported.op = "PollEvents"
    /\ Len(handled) = 2
    /\ \A i \in 1..Len(handled) : handled[i].type # "INSTANCE_LOSS_PENDING"
    /\ handled[1] # handled[2]
    /\ eventQueue = <<>>


----------------------------------------------------------------------------
(* Properties of the end of the frame (checked under SpecSwapchains).      *)

\* C26: the xrEndFrame of a RenderFrame carries one projection layer, which
\* references the app space and has one view per swapchain, each with the
\* sub-image of its swapchain, when the frame was to be rendered and the
\* views were located with a valid position and orientation, and no layer
\* otherwise; a frame that is not to be rendered issues no xrLocateViews, no
\* acquire and no RenderView; in every case xrEndFrame carries the
\* configured blend mode and the display time this frame's xrWaitFrame
\* predicted.
C26_EndFrameCarriesOneLayerOrNone ==
    reported.op = "RenderFrame"
        => LET in == reported.in
               ends == CallsTo(calls, "xrEndFrame")
               end == ends[1].arg
               tracked == in.shouldRender = XR_TRUE /\ in.viewStateFlags = ViewStateFlags
               SubImage(i) == [swapchain |-> m_swapchains[i].handle,
                               width |-> m_swapchains[i].width,
                               height |-> m_swapchains[i].height]
           IN  /\ Len(ends) <= 1
               /\ ends # <<>>
                    => /\ end.displayTime = in.predictedDisplayTime
                       /\ end.environmentBlendMode
                              = GetXrEnvironmentBlendMode(m_options.EnvironmentBlendMode)
                       /\ end.layerCount = Len(end.layers)
                       /\ end.layers =
                              (IF tracked
                               THEN <<[space |-> m_appSpace,
                                       viewCount |-> Len(m_swapchains),
                                       views |-> [i \in 1..Len(m_swapchains) |-> SubImage(i)]]>>
                               ELSE <<>>)
               /\ (CallsTo(calls, "xrBeginFrame") # <<>> /\ in.shouldRender # XR_TRUE)
                    => /\ CallsTo(calls, "xrLocateViews") = <<>>
                       /\ CallsTo(calls, "xrAcquireSwapchainImage") = <<>>
                       /\ CallsTo(calls, "RenderView") = <<>>

\* a frame of two views was drawn and ended with its layer, at the later
\* display time and with the additive blend mode
C26_Witness ==
    /\ reported.op = "RenderFrame" /\ thrown = "none"
    /\ reported.in.predictedDisplayTime = 2
    /\ m_environmentBlendMode = "ADDITIVE"
    /\ Len(m_swapchains) = 2
    /\ calls[Len(calls)].fn = "xrEndFrame"
    /\ calls[Len(calls)].arg.layerCount = 1
    /\ calls[Len(calls)].arg.layers[1].viewCount = 2


\* C27: in a frame that is to be rendered, with tracked views, every
\* visualized space and hand space is queried; the cubes given to RenderView
\* are those of the spaces whose query succeeded with a valid position and
\* orientation, in the order of the queries, and no other; and a query the
\* runtime fails only skips its space: the other spaces are still queried,
\* every view is drawn and xrEndFrame is called.
C27_CubesForLocatedSpacesOnly ==
    (TrackedFrame /\ reported.in.failAt \in {"none", "xrLocateSpace"})
        => LET in == reported.in
               Located(k) == /\ k \notin in.notLocated
                             /\ k \notin in.qualified
                             /\ ~(in.failAt = "xrLocateSpace" /\ in.failIndex = k)
               located == SelectSeq([k \in 1..Len(LocatedSpaces) |-> k], Located)
               cubes == [j \in 1..Len(located) |->
                            [space |-> LocatedSpaces[located[j]],
                             scale |-> CubeScale(located[j])]]
               draws == CallsTo(calls, "RenderView")
           IN  /\ Len(CallsTo(calls, "xrLocateSpace")) = Len(LocatedSpaces)
               /\ Len(draws) = in.viewCountOutput
               /\ \A i \in 1..Len(draws) : draws[i].arg.cubes = cubes
               /\ CallsTo(calls, "xrEndFrame") # <<>>
               /\ thrown = "none"


----------------------------------------------------------------------------
(* Properties of an unsupported view configuration (checked under Spec).   *)

\* C28: with the recognized view configuration Mono, an InitializeSystem
\* whose calls all succeed returns and stores PRIMARY_MONO; a
\* CreateSwapchains of that program that gets past its precondition checks
\* and xrGetSystemProperties then fails with the error "Unsupported view
\* configuration type", having enumerated no view, created no swapchain and
\* added nothing to the image map.
C28_MonoPassesInitializeSystemAndFailsCreateSwapchains ==
    [][/\ (/\ reported'.op = "InitializeSystem"
           /\ m_instance # XR_NULL_HANDLE /\ m_systemId = XR_NULL_SYSTEM_ID
           /\ IsRecognized(m_options)
           /\ GetXrViewConfigurationType(m_options.ViewConfiguration) = "PRIMARY_MONO"
           /\ reported'.in.failAt = "none")
            => /\ thrown' = "none"
               /\ m_viewConfigType' = "PRIMARY_MONO"
               /\ m_systemId' # XR_NULL_SYSTEM_ID
       /\ (/\ reported'.op = "CreateSwapchains"
           /\ m_session # XR_NULL_HANDLE
           /\ m_viewConfigType = "PRIMARY_MONO"
           /\ reported'.in.failAt # "xrGetSystemProperties")
            => /\ thrown' = "logic_error: Unsupported view configuration type"
               /\ calls' = <<Call("xrGetSystemProperties", "")>>
               /\ m_configViews' = <<>> /\ m_views' = 0
               /\ m_swapchains' = <<>>
               /\ m_swapchainImages' = <<>>]_vars

\* a program configured with Mono has a session, on a system that would
\* enumerate two views, and its CreateSwapchains has failed on the view
\* configuration
C28_Witness ==
    /\ reported.op = "CreateSwapchains"
    /\ m_viewConfigType = "PRIMARY_MONO"
    /\ m_session # XR_NULL_HANDLE /\ m_systemId # XR_NULL_SYSTEM_ID
    /\ Len(systemViews) = 2
    /\ thrown = "logic_error: Unsupported view configuration type"
    /\ m_swapchains = <<>>


----------------------------------------------------------------------------
(* Properties of the signals of PollEvents (checked under SpecEvents).     *)

\* C29: whenever PollEvents has returned (and at every point of its loop),
\* requestRestart is true only if exitRenderLoop is true: no sequence of
\* events makes it ask for a restart without an exit.
C29_RestartOnlyWithExit ==
    requestRestart => exitRenderLoop

\* PollEvents has returned after a loss-pending state change of its session
\* and another event, asking for the exit and the restart
C29_Witness ==
    /\ pc = "idle" /\ thrown = "none"
    /\ reported.op = "PollEvents"
    /\ Len(handled) = 2
    /\ handled[1] = StateChangedEvent(SessionHandle, "LOSS_PENDING")
    /\ handled[2].type # "INSTANCE_LOSS_PENDING"
    /\ requestRestart /\ exitRenderLoop


\* C30: the signals of a PollEvents are those of the events it has
\* dispatched itself, whatever an earlier call reported: exitRenderLoop is
\* true exactly when one of them was an instance loss, a loss-pending or an
\* exiting state change, and requestRestart exactly when the last of these
\* was not an exiting one; so a call that dispatched no event, because the
\* queue was empty, returns with both false.
C30_SignalsAreOfThisCallOnly ==
    reported.op = "PollEvents"
        => LET Signals(i) == SetsRestart(handled[i]) \/ ClearsRestart(handled[i])
           IN  /\ exitRenderLoop <=> \E i \in DOMAIN handled : Signals(i)
               /\ requestRestart
                    <=> \E i \in DOMAIN handled :
                            /\ SetsRestart(handled[i])
                            /\ \A k \in DOMAIN handled : k > i => ~ClearsRestart(handled[k])
               /\ handled = <<>> => (~exitRenderLoop /\ ~requestRestart)

\* an earlier call has handled a loss-pending state change, which is still
\* the stored session state, and the present call found the queue empty and
\* has returned with both signals false
C30_Witness ==
    /\ pc = "idle" /\ thrown = "none"
    /\ reported.op = "PollEvents"
    /\ m_session # XR_NULL_HANDLE
    /\ m_sessionState = "LOSS_PENDING"
    /\ handled = <<>>
    /\ calls = <<Call("xrPollEvent", "")>>
    /\ ~exitRenderLoop /\ ~requestRestart


----------------------------------------------------------------------------
(* Properties of the session calls (checked under SpecEvents).             *)

----------------------------------------------------------------------------
(* Properties of the frame's end (checked under SpecSwapchains).           *)

\* C32: when a RenderFrame has ended, returning or failing, an xrBeginFrame
\* it issued and that succeeded is followed by an xrEndFrame, also when
\* xrLocateViews, a space query, an acquire, wait or release of a swapchain
\* image, or the plugin's RenderView failed in between.
C32_BegunFrameIsEnded ==
    (/\ reported.op = "RenderFrame"
     /\ CallsTo(calls, "xrBeginFrame") # <<>>
     /\ reported.in.failAt # "xrBeginFrame")
        => \E k \in 1..Len(calls) :
              /\ calls[k].fn = "xrBeginFrame"
              /\ \E j \in (k + 1)..Len(calls) : calls[j].fn = "xrEndFrame"


----------------------------------------------------------------------------
(* Properties of the handles the destructor destroys (checked under       *)
(* SpecLifetime).                                                          *)

\* C33: in whatever state the object is destroyed, each destroy call of the
\* destructor is for a handle the program created (a hand space, the action
\* set, a swapchain, a visualized space, the app space, the session or the
\* instance) and that no earlier call of the destructor has destroyed; so
\* the hand spaces are destroyed only when InitializeActions has created
\* them, also when it failed after it had created the action set.
C33_OnlyCreatedHandlesAreDestroyed ==
    pc = "destroyed"
        => \A i \in 1..Len(calls) :
              /\ \/ calls[i] \in SessionResources
                 \/ calls[i] = Call("xrDestroySession", m_session)
                        /\ m_session # XR_NULL_HANDLE
                 \/ calls[i] = Call("xrDestroyInstance", m_instance)
                        /\ m_instance # XR_NULL_HANDLE
              /\ \A j \in 1..(i - 1) : calls[j] # calls[i]



----------------------------------------------------------------------------
(* Properties of a CreateSwapchains that fails (checked under              *)
(* SpecSwapchains).                                                        *)

\* a step of CreateSwapchains that passes the three checks at its head and
\* then fails
CreateSwapchainsFailsPartWay ==
    /\ reported'.op = "CreateSwapchains"
    /\ Ok(CreateSwapchainsPrecondition(CreateSwapchainsStart))
    /\ thrown' # "none"

\* C34 as claimed: a CreateSwapchains that fails part-way leaves the
\* swapchain list, the cached config views and the image map as they were
\* on entry, so that the next CreateSwapchains finds both lists empty, and
\* the swapchain list is as long as the image map has entries.
C34_FailedCreateSwapchainsLeavesNothing ==
    [][CreateSwapchainsFailsPartWay
            => /\ m_swapchains' = m_swapchains
               /\ m_configViews' = m_configViews
               /\ m_swapchainImages' = m_swapchainImages
               /\ Len(m_swapchains') = Cardinality(DOMAIN m_swapchainImages')]_vars

\* C34 as amended: CreateSwapchains undoes nothing when it fails.  A failure
\* of xrGetSystemProperties or of xrEnumerateViewConfigurationViews leaves
\* the three members as on entry; a later failure leaves the config views
\* cached; a failure of xrCreateSwapchain for view i leaves the swapchains
\* and the image map entries of the views before i; a failure of
\* xrEnumerateSwapchainImages for view i leaves also the swapchain of view i,
\* which has no entry in the image map, so that the list is one longer than
\* the map.  A CreateSwapchains called while config views are cached or
\* swapchains exist fails its check with a logic error, issues no runtime
\* call and changes none of the three.
C34_FailedCreateSwapchainsKeepsWhatItBuilt ==
    [][/\ CreateSwapchainsFailsPartWay
            => LET in == reported'.in
                   early == in.failAt \in {"xrGetSystemProperties",
                                           "xrEnumerateViewConfigurationViews"}
                   built == CASE in.failAt = "xrCreateSwapchain" -> in.failView - 1
                              [] in.failAt = "xrEnumerateSwapchainImages" -> in.failView
                              [] OTHER -> 0
                   mapped == IF in.failAt \in {"xrCreateSwapchain",
                                               "xrEnumerateSwapchainImages"}
                             THEN in.failView - 1 ELSE 0
               IN  /\ thrown' = "xr_error"
                   /\ m_configViews' = IF early THEN m_configViews ELSE in.views
                   /\ Len(m_swapchains') = built
                   /\ \A k \in 1..built :
                         /\ m_swapchains'[k].handle = k
                         /\ m_swapchains'[k].width = in.views[k].recommendedImageRectWidth
                         /\ m_swapchains'[k].height = in.views[k].recommendedImageRectHeight
                   /\ DOMAIN m_swapchainImages' = 1..mapped
                   /\ \A k \in 1..mapped :
                         m_swapchainImages'[k] = [j \in 1..in.imageCounts[k] |-> j]
       /\ (/\ reported'.op = "CreateSwapchains"
           /\ (m_configViews # <<>> \/ m_swapchains # <<>>))
            => /\ thrown' = "logic_error"
               /\ calls' = <<>>
               /\ m_swapchains' = m_swapchains
               /\ m_configViews' = m_configViews
               /\ m_swapchainImages' = m_swapchainImages]_vars

\* xrEnumerateSwapchainImages has failed for the second of two views: both
\* swapchains are in the list, only the first has its images in the map,
\* and the config views are cached
C34_Witness ==
    /\ reported.op = "CreateSwapchains"
    /\ reported.in.failAt = "xrEnumerateSwapchainImages" /\ reported.in.failView = 2
    /\ thrown = "xr_error"
    /\ Len(m_swapchains) = 2
    /\ DOMAIN m_swapchainImages = {1}
    /\ m_configViews = systemViews /\ Len(m_configViews) = 2



----------------------------------------------------------------------------
(* Properties of the hand scale (checked under SpecActions).               *)

\* C35: the scale of each hand starts at 1.0; a PollActions changes the
\* scale of a hand only when it has read the grab action of that hand as
\* active, to 1.0 less half the grab value; the scale of a hand whose grab
\* action is inactive in the call, or was not read, is the one the last call
\* with an active grab left; with grab values from 0 to 1 both scales are
\* between 0.5 and 1.0 in every state.
C35_HandScaleFollowsActiveGrab ==
    /\ m_input.handScale = <<1000, 1000>>
    /\ [][reported'.op = "PollActions"
            => \A hand \in {LEFT, RIGHT} :
                 LET grab == reported'.in.grab[hand]
                 IN  m_input'.handScale[hand] =
                        IF GrabRead(reported', calls', hand) /\ grab.isActive = XR_TRUE
                        THEN 1000 - (grab.currentState \div 2)
                        ELSE m_input.handScale[hand]]_vars
    /\ [](\A hand \in {LEFT, RIGHT} :
             m_input.handScale[hand] >= 500 /\ m_input.handScale[hand] <= 1000)

\* a PollActions with the left grab inactive and the right grab active at
\* 0.9: the left hand keeps the scale 0.5 of an earlier full squeeze, the
\* right hand has the scale 0.55
C35_Witness ==
    /\ reported.op = "PollActions" /\ thrown = "none"
    /\ reported.in.grab[LEFT] = InactiveGrab
    /\ reported.in.grab[RIGHT] = [isActive |-> XR_TRUE, currentState |-> 900]
    /\ m_input.handScale = <<500, 550>>

====
